---- MODULE Spec2Model ----
(***************************************************************************)
(* A model of the Ronin indexer: the range planner and supervisor          *)
(* (main.rs), the block walker and log decoder (ronin.rs), the write pool, *)
(* the settings store and the index bootstrap (mongo.rs).                  *)
(*                                                                         *)
(* Values: an H160 or H256 is the string of its hex digits without the 0x  *)
(* prefix; to_string renders it with the prefix, as the code's serde       *)
(* rendering does.  A 32-byte word of a log (a topic or a data slot) is a  *)
(* record [a |-> address read from its low 20 bytes, u |-> its unsigned    *)
(* value rendered in decimal, h |-> its rendering as a topic hash].        *)
(***************************************************************************)
EXTENDS Integers, Sequences, FiniteSets, Bags, TLC

(* ------------------------------------------------------------------ *)
(* Program constants                                                  *)
(* ------------------------------------------------------------------ *)
REORG_SAFTY_OFFSET == 50
UPPER_THREAD_LIMIT == 32
MARKETPLACE_V2_DEPLOY_BLOCK == 16027461
ERC1155_DEPLOY_BLOCK == 16171588
CHUNK_SIZE_BASE_LIMIT == 1000000
CHUNK_SIZE_FALLBACK == 1000

ERC_TRANSFER_TOPIC == "0xddf252ad1be2c89b69c2b068fc378daa952ba7f163c4a11628f55a4df523b3ef"
MARKETPLACE_V2_ORDER_MATCHED_TOPIC == "0xafa0d706792fa5d4e9aaf5e456e08e2a833b1e64a201710b782f29172f6d7a3a"
MARKETPLACE_AXIE_SALE_TOPIC == "0x0c0258cd7f0d9474f62106c6981c027ea54bee0b323ea1991f4caa7e288a5725"
ERC1155_TRANSFER_SINGLE_TOPIC == "0xc3d58168c5ae7397731d063d5bbf3d657854427343f4c083240f7aacaa2d0f62"
WETH_ADDRESS == "0xc99a6a985ed2cac1ef41640596c5a5f9f4e19ef5"

(* ------------------------------------------------------------------ *)
(* Bounds of the model                                                *)
(* ------------------------------------------------------------------ *)
MaxCores == 2        \* available_parallelism() ranges over 1..MaxCores
MaxThreads == 2      \* the configured thread count ranges over 0..MaxThreads
MaxRuns == 2         \* process runs against the same store
MaxChunkArg == 4     \* chunk_u64 inputs: chunk_size in 1..MaxChunkArg
MaxSpan == 7         \* chunk_u64 inputs: max - base in 0..MaxSpan
MaxPoolCalls == 4    \* Pool::insert and Pool::update calls made on one pool

(* ------------------------------------------------------------------ *)
(* Rendering                                                          *)
(* ------------------------------------------------------------------ *)
\* Ronin::to_string: the serde rendering with the quotes removed; an H160,
\* H256 renders as 0x followed by its hex digits, an absent value as null.
to_string(x) == IF x = "null" THEN "null" ELSE "0x" \o x

\* Ronin::prefix with AddressPrefix::Ethereum, and the f!("0x{..}") sites.
prefix(request) == "0x" \o request

(* ------------------------------------------------------------------ *)
(* Contract registry                                                  *)
(* ------------------------------------------------------------------ *)
contract_list ==
    [a \in { "0x814a9c959a3ef6ca44b5e2349e3bba9845393947",
             "0xc25970724f032af21d801978c73653c440cf787c",
             "0xc99a6a985ed2cac1ef41640596c5a5f9f4e19ef5",
             "0x97a9107c1793bc407d6f527b77e7fff4d812bece",
             "0xa8754b9fa15fc18bb59458815510e40a12cd2014",
             "0x173a2d4fa585a63acd02c107d57f932be0a71bcc",
             "0x0b7007c13325c48911f73a2dad5fa5dcbf808adc",
             "0xe514d9deb7966c8be0ca922de8a064264ea6bcd4",
             "0xc6344bc1604fcab1a5aad712d766796e2b7a70b9",
             "0x306a28279d04a47468ed83d55088d0dcd1369294",
             "0x2ecb08f87f075b5769fe543d0e52e40140575ea7",
             "0xa7964991f339668107e2b6a6f6b8e8b74aa9d017",
             "0x32950db2a7164ae833121501c797d79e7b79d74c",
             "0x8c811e3c958e190f5ec15fb376533a3398620500",
             "0xa96660f0e4a3e9bc7388925d245a6d4d79e21259" } |->
        IF a \in { "0x814a9c959a3ef6ca44b5e2349e3bba9845393947",
                   "0xc25970724f032af21d801978c73653c440cf787c" }
        THEN "ERC1155"
        ELSE IF a \in { "0x32950db2a7164ae833121501c797d79e7b79d74c",
                        "0x8c811e3c958e190f5ec15fb376533a3398620500",
                        "0xa96660f0e4a3e9bc7388925d245a6d4d79e21259" }
        THEN "ERC721"
        ELSE "ERC20"]

\* The addresses of the registry's ERC721 contracts (the `contracts` vector
\* of order_matched and legacy_erc_sale).
erc721_contracts == { a \in DOMAIN contract_list : contract_list[a] = "ERC721" }

(* ------------------------------------------------------------------ *)
(* Event schemas and ethabi's parse_log                               *)
(* ------------------------------------------------------------------ *)
\* Ronin::transfer_events: per contract type the event's topic0 and its
\* parameters in order, each [kind, indexed].
AddrP(ix) == [kind |-> "address", indexed |-> ix]
UintP(ix) == [kind |-> "uint", indexed |-> ix]
BytesP(ix) == [kind |-> "bytes", indexed |-> ix]

transfer_events ==
    [t \in {"ERC1155", "ERC20", "LegacyErc721Sale", "ERC721", "MarketplaceV2"} |->
        CASE t = "ERC1155" ->
               [sig |-> ERC1155_TRANSFER_SINGLE_TOPIC,
                inputs |-> <<AddrP(TRUE), AddrP(TRUE), AddrP(TRUE), UintP(FALSE), UintP(FALSE)>>]
          [] t = "ERC20" ->
               [sig |-> ERC_TRANSFER_TOPIC,
                inputs |-> <<AddrP(TRUE), AddrP(TRUE), UintP(FALSE)>>]
          [] t = "LegacyErc721Sale" ->
               [sig |-> MARKETPLACE_AXIE_SALE_TOPIC,
                inputs |-> <<AddrP(FALSE), AddrP(FALSE), UintP(FALSE), AddrP(FALSE), UintP(FALSE)>>]
          [] t = "ERC721" ->
               [sig |-> ERC_TRANSFER_TOPIC,
                inputs |-> <<AddrP(TRUE), AddrP(TRUE), UintP(TRUE)>>]
          [] OTHER ->
               [sig |-> MARKETPLACE_V2_ORDER_MATCHED_TOPIC,
                inputs |-> <<BytesP(FALSE), AddrP(FALSE), AddrP(FALSE), UintP(FALSE),
                             AddrP(FALSE), UintP(FALSE), AddrP(FALSE), UintP(FALSE),
                             UintP(FALSE), UintP(FALSE), UintP(FALSE)>>]]

\* The number of parameters among the first n with the given indexed flag.
RECURSIVE CountFlag(_, _, _)
CountFlag(inputs, n, ix) ==
    IF n = 0 THEN 0
    ELSE CountFlag(inputs, n - 1, ix) + (IF inputs[n].indexed = ix THEN 1 ELSE 0)

\* A digit string without its leading zeros ("0" for zero).
RECURSIVE StripZeros(_)
StripZeros(s) ==
    IF Len(s) > 1 /\ SubSeq(s, 1, 1) = "0" THEN StripZeros(SubSeq(s, 2, Len(s))) ELSE s

\* The value of a decoded token as Token::to_string renders it: an address
\* as its 40 hex digits without 0x, a uint with {:x}, that is in lowercase
\* hex without prefix or leading zeros, bytes as hex.
TokenString(word, kind) ==
    CASE kind = "address" -> word.a
      [] kind = "uint" -> StripZeros(SubSeq(word.h, 3, Len(word.h)))
      [] OTHER -> word.h

\* ethabi Event::parse_log for a non-anonymous event: topic0 must be the
\* event's signature, every indexed parameter takes the next topic, every
\* other parameter the next data slot.  ok = FALSE is the Err the code
\* unwraps; params[k] is the code's params[k-1].value.to_string().
parse_log(event, topics, data) ==
    LET inputs == event.inputs
        nIdx == CountFlag(inputs, Len(inputs), TRUE)
        nDat == CountFlag(inputs, Len(inputs), FALSE)
    IN  IF \/ Len(topics) = 0
           \/ topics[1].h # event.sig
           \/ Len(topics) # nIdx + 1
           \/ Len(data) < nDat
        THEN [ok |-> FALSE, params |-> << >>]
        ELSE [ok |-> TRUE,
              params |-> [k \in 1..Len(inputs) |->
                LET word == IF inputs[k].indexed
                            THEN topics[1 + CountFlag(inputs, k, TRUE)]
                            ELSE data[CountFlag(inputs, k, FALSE)]
                IN  TokenString(word, inputs[k].kind)]]

(* ------------------------------------------------------------------ *)
(* Chain data: the blocks the RPC endpoint serves                     *)
(* ------------------------------------------------------------------ *)
\* Words of a log.
AddrWord(x) == [a |-> x, u |-> "uint-of-" \o x, h |-> "0x000000000000000000000000" \o x]
UintWord(dec, low) == [a |-> low, u |-> dec, h |-> "0x000000000000000000000000" \o low]
TopicWord(t) == [a |-> "low20-of-" \o t, u |-> "uint-of-" \o t, h |-> t]

WalletA == "00000000000000000000000000000000000000a1"
WalletB == "00000000000000000000000000000000000000b2"
AXIE == "32950db2a7164ae833121501c797d79e7b79d74c"
WETH == "c99a6a985ed2cac1ef41640596c5a5f9f4e19ef5"
CHARM == "814a9c959a3ef6ca44b5e2349e3bba9845393947"
LegacyMarket == "213073989821f738a7ba3520c3d31a1f9ad31bbd"
MarketV2 == "fff9ce5f71ca6178d3beecedb61e7eff1602950e"

Uint99 == UintWord("99", "0000000000000000000000000000000000000063")
Uint42 == UintWord("42", "000000000000000000000000000000000000002a")
Uint10 == UintWord("10", "000000000000000000000000000000000000000a")
Uint1000 == UintWord("1000", "00000000000000000000000000000000000003e8")
Uint950 == UintWord("950", "00000000000000000000000000000000000003b6")
Uint0 == UintWord("0", "0000000000000000000000000000000000000000")

MkLog(address, topics, data, hash, index) ==
    [address |-> address, topics |-> topics, data |-> data,
     transaction_hash |-> hash, log_index |-> index]

TransferLog721(token, from, to, id, hash, index) ==
    MkLog(token, <<TopicWord(ERC_TRANSFER_TOPIC), AddrWord(from), AddrWord(to), id>>,
          <<>>, hash, index)

TransferLog20(token, from, to, value, hash, index) ==
    MkLog(token, <<TopicWord(ERC_TRANSFER_TOPIC), AddrWord(from), AddrWord(to)>>,
          <<value>>, hash, index)

\* The ERC-721 Approval event a token contract emits when a transfer clears
\* the token's approval: topic0 is keccak("Approval(address,address,uint256)").
ERC721_APPROVAL_TOPIC == "0x8c5be1e5ebec7d5bd14f71427d1e84f3dd0314c0f7b2291e5b200ac8c7c3b925"

ApprovalLog721(token, owner, approved, id, hash, index) ==
    MkLog(token, <<TopicWord(ERC721_APPROVAL_TOPIC), AddrWord(owner), AddrWord(approved), id>>,
          <<>>, hash, index)

TransferSingleLog(token, operator, from, to, id, value, hash, index) ==
    MkLog(token, <<TopicWord(ERC1155_TRANSFER_SINGLE_TOPIC), AddrWord(operator),
                   AddrWord(from), AddrWord(to)>>,
          <<id, value>>, hash, index)

AuctionSuccessfulLog(seller, buyer, token, price, hash, index) ==
    MkLog(LegacyMarket, <<TopicWord(MARKETPLACE_AXIE_SALE_TOPIC)>>,
          <<AddrWord(seller), AddrWord(buyer), Uint0, AddrWord(token), price>>,
          hash, index)

OrderMatchedLog(maker, matcher, settle, received, hash, index) ==
    MkLog(MarketV2, <<TopicWord(MARKETPLACE_V2_ORDER_MATCHED_TOPIC)>>,
          <<TopicWord("0xorderhash"), AddrWord(maker), AddrWord(matcher), Uint0,
            AddrWord(WETH), settle, AddrWord(WETH), settle, received, Uint0, Uint0>>,
          hash, index)

MkTx(hash, from, to, logs) == [hash |-> hash, from |-> from, to |-> to, logs |-> logs]

\* The two stretches of the chain the model walks: around the Marketplace V2
\* deploy block and around the ERC1155 deploy block.
Heights ==
    ((MARKETPLACE_V2_DEPLOY_BLOCK - 1)..(MARKETPLACE_V2_DEPLOY_BLOCK + 2))
    \cup (ERC1155_DEPLOY_BLOCK..(ERC1155_DEPLOY_BLOCK + 2))

\* The transactions of block h, each with the logs of its receipt.
BlockTxs(h) ==
    CASE h = MARKETPLACE_V2_DEPLOY_BLOCK - 1 ->
           << MkTx("aa01", WalletA, LegacyMarket,
                   << AuctionSuccessfulLog(WalletA, WalletB, AXIE, Uint1000, "aa01", "0x0"),
                      TransferLog721(AXIE, WalletA, WalletB, Uint99, "aa01", "0x1") >>) >>
      [] h = MARKETPLACE_V2_DEPLOY_BLOCK ->
           << MkTx("aa02", WalletB, WETH,
                   << TransferLog20(WETH, WalletB, WalletA, Uint10, "aa02", "0x0") >>) >>
      [] h = MARKETPLACE_V2_DEPLOY_BLOCK + 1 ->
           << MkTx("aa03", WalletB, MarketV2,
                   << OrderMatchedLog(WalletA, WalletB, Uint1000, Uint950, "aa03", "0x0"),
                      TransferLog721(AXIE, WalletA, WalletB, Uint42, "aa03", "0x1") >>),
              MkTx("aa04", WalletA, "null", <<>>) >>
      [] h = ERC1155_DEPLOY_BLOCK ->
           << MkTx("aa05", WalletA, CHARM,
                   << TransferSingleLog(CHARM, WalletA, WalletA, WalletB, Uint42, Uint10,
                                        "aa05", "0x0") >>) >>
      [] h = ERC1155_DEPLOY_BLOCK + 1 ->
           << MkTx("aa06", WalletB, CHARM,
                   << TransferSingleLog(CHARM, WalletB, WalletB, WalletA, Uint42, Uint10,
                                        "aa06", "0x0") >>) >>
      [] h = ERC1155_DEPLOY_BLOCK + 2 ->
           << MkTx("aa07", WalletA, WalletB, <<>>),
              MkTx("aa08", WalletB, WalletA, <<>>) >>
      [] OTHER -> << >>

\* The block's timestamp in seconds.
BlockTimestamp(h) == (h % 1000) * 3

(* ------------------------------------------------------------------ *)
(* Records and log ids                                                *)
(* ------------------------------------------------------------------ *)
\* ERCTransfer::get_transfer_id: sha256 over hash, '-', index; the digest is
\* modelled as the tagged preimage (a collision-free hash).
ERCTransfer_get_transfer_id(hash, index) == <<"sha256", hash \o "-" \o index>>

\* An id of an ERC1155 transfer that digests the pair in the other order.
get_transfer_id_swapped(hash, index) == <<"sha256", index \o "-" \o hash>>

\* ERC1155Transfer::get_transfer_id.
ERC1155Transfer_get_transfer_id(hash, index) == <<"sha256", hash \o "-" \o index>>

(* ------------------------------------------------------------------ *)
(* Sale decoding                                                      *)
(* ------------------------------------------------------------------ *)
None == [kind |-> "none"]
Panic == [kind |-> "panic"]
Some(v) == [kind |-> "some", v |-> v]

HasTopic(log, topic) == \E k \in 1..Len(log.topics) : log.topics[k].h = topic

NoTopics(logs) == \E k \in 1..Len(logs) : Len(logs[k].topics) = 0

IsLegacyTransferLog(x) ==
    /\ x.topics[1].h = ERC_TRANSFER_TOPIC
    /\ to_string(x.address) # WETH_ADDRESS
    /\ to_string(x.address) \in erc721_contracts

IsSaleLog(x) == HasTopic(x, MARKETPLACE_AXIE_SALE_TOPIC)

\* Ronin::legacy_erc_sale: None, Panic (an unwrap of an Err, or topics[0] of
\* a log without topics) or Some(Sale).
legacy_erc_sale(tx, block) ==
    IF Len(tx.logs) = 0 THEN None
    ELSE LET sale_log == SelectSeq(tx.logs, IsSaleLog)
         IN  IF Len(sale_log) = 0 THEN None
             ELSE IF NoTopics(tx.logs) THEN Panic
             ELSE LET transfer_log == SelectSeq(tx.logs, IsLegacyTransferLog)
                  IN  IF Len(transfer_log) = 0 THEN None
                      ELSE LET parsed_sale == parse_log(transfer_events["LegacyErc721Sale"],
                                                        sale_log[1].topics, sale_log[1].data)
                               parsed_transfer == parse_log(transfer_events["ERC721"],
                                                            transfer_log[1].topics,
                                                            transfer_log[1].data)
                           IN  IF ~parsed_sale.ok \/ ~parsed_transfer.ok THEN Panic
                               ELSE Some([seller |-> prefix(parsed_sale.params[1]),
                                          buyer |-> prefix(parsed_sale.params[2]),
                                          price |-> parsed_sale.params[5],
                                          seller_received |-> parsed_sale.params[5],
                                          token |-> to_string(transfer_log[1].address),
                                          token_id |-> parsed_transfer.params[3],
                                          transaction_id |-> to_string(tx.hash),
                                          created_at |-> BlockTimestamp(block) * 1000,
                                          block |-> block])

IsOrderMatchedLog(l) == l.topics[1].h = MARKETPLACE_V2_ORDER_MATCHED_TOPIC

IsErc721Log(c) == to_string(c.address) \in erc721_contracts

\* Ronin::has_order_matched: the first log whose topics[0] is OrderMatched.
has_order_matched(logs) ==
    IF NoTopics(logs) THEN Panic
    ELSE LET log == SelectSeq(logs, IsOrderMatchedLog)
         IN  IF Len(log) = 0 THEN None ELSE Some(log[1])

\* Ronin::order_matched.
order_matched(tx, block) ==
    IF Len(tx.logs) = 0 THEN None
    ELSE LET matched_order == has_order_matched(tx.logs)
         IN  IF matched_order.kind # "some" THEN matched_order
             ELSE LET parsed_sale_data == parse_log(transfer_events["MarketplaceV2"],
                                                    matched_order.v.topics,
                                                    matched_order.v.data)
                      erc_transfer_logs == SelectSeq(tx.logs, IsErc721Log)
                  IN  IF ~parsed_sale_data.ok THEN Panic
                      ELSE IF Len(erc_transfer_logs) = 0 THEN None
                      ELSE LET erc_transfer_log == erc_transfer_logs[1]
                               erc_transfer == parse_log(transfer_events["ERC721"],
                                                         erc_transfer_log.topics,
                                                         erc_transfer_log.data)
                           IN  IF ~erc_transfer.ok THEN Panic
                               ELSE Some([seller |-> prefix(parsed_sale_data.params[2]),
                                          buyer |-> prefix(parsed_sale_data.params[3]),
                                          price |-> parsed_sale_data.params[8],
                                          seller_received |-> parsed_sale_data.params[9],
                                          token |-> to_string(erc_transfer_log.address),
                                          token_id |-> erc_transfer.params[3],
                                          transaction_id |-> to_string(tx.hash),
                                          created_at |-> BlockTimestamp(block) * 1000,
                                          block |-> block])

(* ------------------------------------------------------------------ *)
(* Write pool (Pool<T>): buffered inserts and updates                 *)
(* ------------------------------------------------------------------ *)
EmptyPool == [updates |-> << >>, inserts |-> << >>]

\* Vec::remove(index).
RemoveAt(s, index) == SubSeq(s, 1, index - 1) \o SubSeq(s, index + 1, Len(s))

\* A pool that finds no buffered document, and one that finds no filter.
has_insert_never(pool, doc) == 0

has_update_never(pool, filter) == 0

\* Pool::has_insert / Pool::has_update: the first position, 0 for None.
has_insert(pool, doc) ==
    IF \E k \in 1..Len(pool.inserts) : pool.inserts[k] = doc
    THEN CHOOSE k \in 1..Len(pool.inserts) :
            /\ pool.inserts[k] = doc
            /\ \A j \in 1..(k - 1) : pool.inserts[j] # doc
    ELSE 0

has_update(pool, filter) ==
    IF \E k \in 1..Len(pool.updates) : pool.updates[k][1] = filter
    THEN CHOOSE k \in 1..Len(pool.updates) :
            /\ pool.updates[k][1] = filter
            /\ \A j \in 1..(k - 1) : pool.updates[j][1] # filter
    ELSE 0

\* Pool::insert.
Pool_insert(pool, insert) ==
    LET existing == has_insert(pool, insert)
    IN  IF existing = 0
        THEN [pool EXCEPT !.inserts = Append(@, insert)]
        ELSE [pool EXCEPT !.inserts = Append(RemoveAt(@, existing), insert)]

\* A pool that keeps the first update buffered for a filter.
Pool_update_keep_first(pool, update) ==
    IF has_update(pool, update[1]) = 0
    THEN [pool EXCEPT !.updates = Append(@, update)]
    ELSE pool

\* Pool::update; update = <<filter, update document>>.
Pool_update(pool, update) ==
    LET existing == has_update(pool, update[1])
    IN  IF existing = 0
        THEN [pool EXCEPT !.updates = Append(@, update)]
        ELSE [pool EXCEPT !.updates = Append(RemoveAt(@, existing), update)]

\* Pool::len.
Pool_len(pool) == Len(pool.updates) + Len(pool.inserts)

\* WalletProvider::update: the filter and the $set document.
WalletProvider_update(address, block, transaction) ==
    << [address |-> address],
       [last_seen |-> [block |-> block, transaction |-> transaction]] >>

(* ------------------------------------------------------------------ *)
(* The walker's decoding of one block (the body of the tx loop)       *)
(* ------------------------------------------------------------------ *)
\* The ERC1155 dispatch of one log (stream, the block-height gated branch):
\* skip = the `continue` that leaves the log, docs = the record to buffer.
Erc1155Dispatch(log, current_block) ==
    IF current_block > ERC1155_DEPLOY_BLOCK /\ HasTopic(log, ERC1155_TRANSFER_SINGLE_TOPIC)
    THEN LET contract_address == to_string(log.address)
         IN  IF contract_address \notin DOMAIN contract_list
             THEN [skip |-> TRUE, panic |-> FALSE, docs |-> << >>]
             ELSE LET event_data == parse_log(transfer_events["ERC1155"], log.topics, log.data)
                  IN  IF ~event_data.ok
                      THEN [skip |-> FALSE, panic |-> TRUE, docs |-> << >>]
                      ELSE [skip |-> FALSE, panic |-> FALSE,
                            docs |-> << [token |-> contract_address,
                                         operator |-> prefix(event_data.params[1]),
                                         from |-> prefix(event_data.params[2]),
                                         to |-> prefix(event_data.params[3]),
                                         token_id |-> event_data.params[4],
                                         value |-> event_data.params[5],
                                         block |-> current_block,
                                         transaction_id |-> to_string(log.transaction_hash),
                                         log_index |-> log.log_index,
                                         log_id |-> ERC1155Transfer_get_transfer_id(
                                                        to_string(log.transaction_hash),
                                                        log.log_index)] >>]
    ELSE [skip |-> FALSE, panic |-> FALSE, docs |-> << >>]

\* A dispatch that takes the Transfer log of any address, as an ERC20 one.
ErcDispatchAnyAddress(log, current_block) ==
    IF HasTopic(log, ERC_TRANSFER_TOPIC)
    THEN [panic |-> FALSE,
          docs |-> << [token |-> to_string(log.address), erc |-> "ERC20",
                       transaction_id |-> to_string(log.transaction_hash),
                       log_index |-> log.log_index] >>]
    ELSE [panic |-> FALSE, docs |-> << >>]

\* The ERC20/ERC721 dispatch of one log.  The log is parsed with the schema
\* of the registry entry's type; a parse error is expect()ed.
ErcDispatch(log, current_block) ==
    IF HasTopic(log, ERC_TRANSFER_TOPIC)
    THEN LET contract_address == to_string(log.address)
         IN  IF contract_address \notin DOMAIN contract_list
             THEN [panic |-> FALSE, docs |-> << >>]
             ELSE LET erc == contract_list[contract_address]
                      event_data == parse_log(transfer_events[erc], log.topics, log.data)
                  IN  IF ~event_data.ok
                      THEN [panic |-> TRUE, docs |-> << >>]
                      ELSE [panic |-> FALSE,
                            docs |-> << [from |-> prefix(event_data.params[1]),
                                         to |-> prefix(event_data.params[2]),
                                         token |-> contract_address,
                                         value_or_token_id |-> event_data.params[3],
                                         block |-> current_block,
                                         transaction_id |-> to_string(log.transaction_hash),
                                         erc |-> erc,
                                         log_index |-> log.log_index,
                                         log_id |-> ERCTransfer_get_transfer_id(
                                                        to_string(log.transaction_hash),
                                                        log.log_index)] >>]
    ELSE [panic |-> FALSE, docs |-> << >>]

\* Pool::insert of the document of a sequence of at most one document.
InsertAll(pool, docs) == IF Len(docs) = 0 THEN pool ELSE Pool_insert(pool, docs[1])

\* The loop over receipt.logs from position k; st carries the pools.
RECURSIVE LogLoop(_, _, _, _)
LogLoop(st, logs, k, current_block) ==
    IF k > Len(logs) \/ st.panic THEN st
    ELSE LET d1155 == Erc1155Dispatch(logs[k], current_block)
             derc == IF d1155.skip \/ d1155.panic
                     THEN [panic |-> FALSE, docs |-> << >>]
                     ELSE ErcDispatch(logs[k], current_block)
         IN  LogLoop([st EXCEPT !.erc1155_pool = InsertAll(@, d1155.docs),
                                !.erc_pool = InsertAll(@, derc.docs),
                                !.panic = d1155.panic \/ derc.panic],
                     logs, k + 1, current_block)

\* A walker that takes the Marketplace V2 decoder at every height.
SalePathUngated(current_block) == "order_matched"

\* The branch of `if current_block > MARKETPLACE_V2_DEPLOY_BLOCK`.
SalePath(current_block) ==
    IF current_block > MARKETPLACE_V2_DEPLOY_BLOCK THEN "order_matched" ELSE "legacy_erc_sale"

\* The sale decoder the walker applies at a block height.
SaleDecode(tx, current_block) ==
    IF SalePath(current_block) = "order_matched"
    THEN order_matched(tx, current_block)
    ELSE legacy_erc_sale(tx, current_block)

\* One iteration of `for tx in block.transactions`.
TxStep(st, tx, current_block, args) ==
    LET tx_from == to_string(tx.from)
        tx_to == to_string(tx.to)
        tx_hash == to_string(tx.hash)
        s1 == IF args.feature_wallet_updates
              THEN [st EXCEPT !.wallet_pool =
                        Pool_update(Pool_update(@,
                            WalletProvider_update(tx_from, current_block, tx_hash)),
                            WalletProvider_update(tx_to, current_block, tx_hash))]
              ELSE st
        sale == IF args.feature_erc_721_sales THEN SaleDecode(tx, current_block) ELSE None
        s2 == IF sale.kind = "some"
              THEN [s1 EXCEPT !.erc_sale_pool = Pool_insert(@, sale.v)]
              ELSE [s1 EXCEPT !.panic = (sale.kind = "panic")]
        s3 == IF s2.panic \/ ~args.feature_erc_transfers
              THEN s2
              ELSE LogLoop(s2, tx.logs, 1, current_block)
    IN  IF s3.panic \/ ~args.feature_transactions
        THEN s3
        ELSE [s3 EXCEPT !.tx_pool = Append(@, [from |-> prefix(tx_from),
                                               to |-> prefix(tx_to),
                                               hash |-> tx_hash,
                                               block |-> current_block,
                                               timestamp |-> BlockTimestamp(current_block) * 1000])]

RECURSIVE TxLoop(_, _, _, _, _)
TxLoop(st, txs, k, current_block, args) ==
    IF k > Len(txs) \/ st.panic THEN st
    ELSE TxLoop(TxStep(st, txs[k], current_block, args), txs, k + 1, current_block, args)

\* The pools after the tx loop of block current_block, starting from fresh
\* per-block pools and the walker's wallet pool.
DecodeBlock(wallet_pool, current_block, args) ==
    TxLoop([wallet_pool |-> wallet_pool, tx_pool |-> << >>, erc_pool |-> EmptyPool,
            erc1155_pool |-> EmptyPool, erc_sale_pool |-> EmptyPool, panic |-> FALSE],
           BlockTxs(current_block), 1, current_block, args)

(* ------------------------------------------------------------------ *)
(* Range planner (main.rs)                                            *)
(* ------------------------------------------------------------------ *)
\* The loop of chunk_u64 from `num`, with the chunks pushed so far.  The
\* heights of the model stay far below 2^64, where `num += chunk_size` wraps.
RECURSIVE chunk_loop(_, _, _, _)
chunk_loop(num, max, chunk_size, chunks) ==
    LET start == num
        end == num + chunk_size
    IN  IF end >= max
        THEN Append(chunks, <<start, max>>)
        ELSE chunk_loop(end, max, chunk_size, Append(chunks, <<start, end - 1>>))

\* chunk_u64 without its `end -= 1`: a chunk ends where the next one starts.
chunk_u64_keep_end(base, max, chunk_size) ==
    LET r == chunk_loop(base, max, chunk_size, << >>)
    IN  [k \in 1..Len(r) |-> <<r[k][1], IF k < Len(r) THEN r[k][2] + 1 ELSE r[k][2]>>]

chunk_u64(base, max, chunk_size) == chunk_loop(base, max, chunk_size, << >>)

\* main: sync_start, sync_stop, available_parallelism, chunk_size.
sync_start(a) == IF a.start_block > 0 THEN a.start_block ELSE 1

sync_stop(a, block_number) ==
    IF a.stop_block > 0 THEN a.stop_block ELSE block_number - REORG_SAFTY_OFFSET

available_parallelism(a, cpus) ==
    LET p == IF a.threads > 0 /\ a.threads < cpus THEN a.threads ELSE cpus
    IN  IF p > UPPER_THREAD_LIMIT THEN UPPER_THREAD_LIMIT ELSE p

\* `sync_stop - sync_start` is a u64 difference: with the start above the
\* stop it wraps (where it does not panic) to a value above the base limit.
chunk_size_of(start, stop, parallelism) ==
    LET chunk_size_base == IF start > stop \/ (stop - start) > CHUNK_SIZE_BASE_LIMIT
                           THEN CHUNK_SIZE_BASE_LIMIT
                           ELSE stop - start
        chunk_size == chunk_size_base \div parallelism
    IN  IF chunk_size <= 0 THEN CHUNK_SIZE_FALLBACK ELSE chunk_size

(* ------------------------------------------------------------------ *)
(* Document store: collections, indexes, settings                     *)
(* ------------------------------------------------------------------ *)
Collections == <<"settings", "wallets", "transactions", "erc_transfers",
                 "erc1155_transfers", "erc721_sales">>

\* The collections of records written by insert_many.
RecordCollections == {"transactions", "erc_transfers", "erc1155_transfers", "erc721_sales"}

\* Indexable::index_model of each provider: <<field, unique>> in order.
index_model(c) ==
    CASE c = "settings" -> << <<"key", TRUE>> >>
      [] c = "wallets" -> << <<"address", TRUE>> >>
      [] c = "transactions" ->
           << <<"hash", TRUE>>, <<"block", FALSE>>, <<"from", FALSE>>, <<"to", FALSE>> >>
      [] c = "erc_transfers" ->
           << <<"log_id", TRUE>>, <<"from", FALSE>>, <<"to", FALSE>>, <<"token", FALSE>>,
              <<"value_or_token_id", FALSE>>, <<"block", FALSE>>,
              <<"transaction_id", FALSE>>, <<"erc", FALSE>> >>
      [] c = "erc1155_transfers" ->
           << <<"log_id", TRUE>>, <<"operator", FALSE>>, <<"from", FALSE>>, <<"to", FALSE>>,
              <<"token_id", FALSE>>, <<"value", FALSE>>, <<"block", FALSE>>,
              <<"transaction_id", FALSE>> >>
      [] OTHER ->
           << <<"seller", FALSE>>, <<"buyer", FALSE>>, <<"token_id", FALSE>>,
              <<"token", FALSE>>, <<"created_at", FALSE>>, <<"transaction_id", TRUE>> >>

\* Indexable::index_setup_key of each provider.
index_setup_key(c) ==
    CASE c = "settings" -> "settings"
      [] c = "wallets" -> "setup.wallets"
      [] c = "transactions" -> "setup.transactions"
      [] c = "erc_transfers" -> "setup.erc_transfers"
      [] c = "erc1155_transfers" -> "setup.erc1155_transfers"
      [] OTHER -> "setup.erc_sales"

SettingKeys ==
    { index_setup_key(Collections[k]) : k \in 1..Len(Collections) }
    \cup {"last_block", "largest_block_by_tx_num"}

\* The field of a collection's unique index, and the indexes as the store
\* holds them: pairs <<collection, field>>.
UniqueField(c) ==
    LET m == index_model(c)
    IN  m[CHOOSE k \in 1..Len(m) : m[k][2]][1]

IndexesOf(c) == { <<c, index_model(c)[k][1]>> : k \in 1..Len(index_model(c)) }

\* The insert of a server that enforces no unique index.
CanInsertAlways(ix, c, bag, doc) == TRUE

\* A store in which no collection has its unique index.
NoUniqueIndex(ix, c) == FALSE

HasUniqueIndex(ix, c) == <<c, UniqueField(c)>> \in ix

\* The unique key of a record of collection c.
KeyOf(c, doc) ==
    CASE c = "transactions" -> doc.hash
      [] c = "erc721_sales" -> doc.transaction_id
      [] c = "wallets" -> doc.address
      [] OTHER -> doc.log_id

Keys(c, bag) == { KeyOf(c, d) : d \in BagToSet(bag) }

\* Some unique key is held by two documents.
HasDuplicates(c, bag) ==
    \/ \E d \in BagToSet(bag) : CopiesIn(d, bag) > 1
    \/ \E d, e \in BagToSet(bag) : d # e /\ KeyOf(c, d) = KeyOf(c, e)

\* The server's insert of one document: refused (duplicate key) when the
\* collection's unique index exists and holds the key.
CanInsert(ix, c, bag, doc) == ~(HasUniqueIndex(ix, c) /\ KeyOf(c, doc) \in Keys(c, bag))

\* A commit whose insert gives up at the first refused document.
RECURSIVE InsertUntilRefused(_, _, _, _, _)
InsertUntilRefused(ix, c, bag, docs, k) ==
    IF k > Len(docs) THEN bag
    ELSE IF CanInsert(ix, c, bag, docs[k])
         THEN InsertUntilRefused(ix, c, bag (+) SetToBag({docs[k]}), docs, k + 1)
         ELSE bag

\* insert_many with ordered(false): every document is attempted.
RECURSIVE InsertUnordered(_, _, _, _, _)
InsertUnordered(ix, c, bag, docs, k) ==
    IF k > Len(docs) THEN bag
    ELSE InsertUnordered(ix, c,
                         IF CanInsert(ix, c, bag, docs[k])
                         THEN bag (+) SetToBag({docs[k]}) ELSE bag,
                         docs, k + 1)

\* insert_many with the default options (ordered): stops at the first error.
RECURSIVE InsertOrdered(_, _, _, _, _)
InsertOrdered(ix, c, bag, docs, k) ==
    IF k > Len(docs) THEN bag
    ELSE IF CanInsert(ix, c, bag, docs[k])
         THEN InsertOrdered(ix, c, bag (+) SetToBag({docs[k]}), docs, k + 1)
         ELSE bag

\* update_one(filter {address}, {$set: {last_seen}}, upsert): the wallets
\* collection as a set of documents, one per address.
UpsertWallet(ws, update) ==
    { d \in ws : d.address # update[1].address }
    \cup { [address |-> update[1].address, last_seen |-> update[2].last_seen] }

\* SettingsProvider::get and ::set on the settings map (<< >> = no document).
EmptySettings == [key \in SettingKeys |-> << >>]
Settings_get(st, key) == st[key]
Settings_set(st, key, value) == [st EXCEPT ![key] = <<value>>]

(* ------------------------------------------------------------------ *)
(* State                                                              *)
(* ------------------------------------------------------------------ *)
VARIABLES
    args,       \* the parsed command line (Args)
    cores,      \* std::thread::available_parallelism()
    head,       \* eth_blockNumber at startup
    run,        \* the number of the process run against the store
    main,       \* the supervisor: chunks, i, tasks, parallelism, outcome
    procs,      \* process 0 is main, process k the walker task of chunk k
    settings,   \* the settings collection: key -> << >> or <<value>>
    indexes,    \* the indexes the store holds: <<collection, field>>
    docs,       \* the record collections, each a bag of documents
    wallets,    \* the wallets collection
    hist,       \* history: what the walkers of this run have done so far
    snap,       \* history: the record collections when the previous run ended
    fn          \* a call of a pure function and its result, << >> otherwise

vars == <<args, cores, head, run, main, procs, settings, indexes, docs, wallets,
          hist, snap, fn>>
envVars == <<args, cores, head, run>>
storeVars == <<settings, indexes, docs, wallets>>

EmptyDocs == [c \in RecordCollections |-> EmptyBag]

NoLargest == [number |-> 0, tx_num |-> 0]

\* A task that has not been spawned.
IdleProc ==
    [pc |-> "idle", phase |-> "connect", k |-> 0, create |-> {}, range |-> <<0, 0>>,
     current_block |-> 0, largest |-> NoLargest, upd |-> 0,
     wallet_pool |-> EmptyPool, tx_pool |-> << >>, erc_pool |-> EmptyPool,
     erc1155_pool |-> EmptyPool, erc_sale_pool |-> EmptyPool]

\* main at mongo::connect.
MainProc == [IdleProc EXCEPT !.pc = "ci_read"]

InitMain == [chunks |-> << >>, i |-> 0, tasks |-> << >>, parallelism |-> 0,
             outcome |-> "running"]

InitHist == [walkerWrote |-> FALSE, lateDrop |-> FALSE, lost |-> {}]

\* JoinHandle::is_finished: the task returned or panicked.
Finished(r) == r.pc \in {"done", "panicked"}

Walkers == DOMAIN procs \ {0}

(* ------------------------------------------------------------------ *)
(* Index bootstrap: Database::create_indexes, run by mongo::connect   *)
(* and after the replay drops                                         *)
(* ------------------------------------------------------------------ *)
\* The first collection at or after position `from` that is to be set up, 0
\* when there is none.
FirstCreate(create, from) ==
    IF \E j \in from..Len(Collections) : Collections[j] \in create
    THEN CHOOSE j \in from..Len(Collections) :
            /\ Collections[j] \in create
            /\ \A i \in from..(j - 1) : Collections[i] \notin create
    ELSE 0

\* Where a process goes when create_indexes returns: main to its planning,
\* a walker into stream (the replay drops first), a reset walker on.
AfterBootstrap(r, p) ==
    LET q == [r EXCEPT !.k = 0, !.create = {}, !.phase = "stream"]
    IN  IF r.phase = "reset" THEN [q EXCEPT !.pc = "read_largest"]
        ELSE IF p = 0 THEN [q EXCEPT !.pc = "plan"]
        ELSE IF args.replay THEN [q EXCEPT !.pc = "drop", !.k = 1, !.phase = "drop"]
        ELSE [q EXCEPT !.pc = "read_largest"]

\* A create_indexes that sets up the settings collection whatever it read.
AfterReadsAlways(r, p) == [r EXCEPT !.pc = "ci_create", !.k = 1]

\* After the six settings reads: the first `if create_..` that applies.
AfterReads(r, p) ==
    LET j == FirstCreate(r.create, 1)
    IN  IF j = 0 THEN AfterBootstrap(r, p) ELSE [r EXCEPT !.pc = "ci_create", !.k = j]

\* The six `self.settings.get(index_setup_key)` reads that open
\* create_indexes: a collection is set up when its marker is absent.  The
\* reads write nothing and are taken as one step; every outcome of that step
\* is an outcome of the six reads in sequence.
CiRead(p) ==
    /\ procs[p].pc = "ci_read"
    /\ LET r == procs[p]
           create == { c \in RecordCollections \cup {"settings", "wallets"} :
                         Settings_get(settings, index_setup_key(c)) = << >> }
       IN  procs' = [procs EXCEPT ![p] = AfterReads([r EXCEPT !.create = create], p)]
    /\ UNCHANGED <<envVars, main, storeVars, hist, snap, fn>>

\* The create_index loop over one collection's index_model.  A unique index
\* cannot be built over duplicate keys: the expect() panics.
CiCreate(p) ==
    /\ procs[p].pc = "ci_create"
    /\ LET r == procs[p]
           c == Collections[r.k]
           fails == c \in RecordCollections /\ HasDuplicates(c, docs[c])
       IN  IF fails
           THEN /\ procs' = [procs EXCEPT ![p] = [r EXCEPT !.pc = "panicked"]]
                /\ main' = IF p = 0 THEN [main EXCEPT !.outcome = "failed"] ELSE main
                /\ UNCHANGED indexes
           ELSE /\ procs' = [procs EXCEPT ![p] = [r EXCEPT !.pc = "ci_mark"]]
                /\ indexes' = indexes \cup IndexesOf(c)
                /\ UNCHANGED main
    /\ UNCHANGED <<envVars, settings, docs, wallets, hist, snap, fn>>

\* settings.set(index_setup_key, "1"), then the next `if create_..`.
CiMark(p) ==
    /\ procs[p].pc = "ci_mark"
    /\ LET r == procs[p]
           c == Collections[r.k]
           j == FirstCreate(r.create, r.k + 1)
       IN  /\ settings' = Settings_set(settings, index_setup_key(c), "1")
           /\ procs' = [procs EXCEPT ![p] = IF j = 0
                                             THEN AfterBootstrap(r, p)
                                             ELSE [r EXCEPT !.pc = "ci_create", !.k = j]]
    /\ UNCHANGED <<envVars, main, indexes, docs, wallets, hist, snap, fn>>

(* ------------------------------------------------------------------ *)
(* The walker: Ronin::stream                                          *)
(* ------------------------------------------------------------------ *)
\* The collections the replay branch drops, in order.
DropOrder == <<"settings", "wallets", "transactions", "erc_transfers", "erc1155_transfers">>

\* collection.drop(): the documents and the indexes of the collection go.
WDrop(p) ==
    /\ p # 0
    /\ procs[p].pc = "drop"
    /\ LET r == procs[p]
           c == DropOrder[r.k]
       IN  /\ settings' = IF c = "settings" THEN EmptySettings ELSE settings
           /\ wallets' = IF c = "wallets" THEN {} ELSE wallets
           /\ docs' = IF c \in RecordCollections THEN [docs EXCEPT ![c] = EmptyBag] ELSE docs
           /\ indexes' = { ix \in indexes : ix[1] # c }
           /\ hist' = [hist EXCEPT !.lateDrop = @ \/ hist.walkerWrote]
           /\ procs' = [procs EXCEPT ![p] =
                            IF r.k < Len(DropOrder)
                            THEN [r EXCEPT !.k = r.k + 1]
                            ELSE [r EXCEPT !.pc = "ci_read", !.phase = "reset", !.k = 0]]
    /\ UNCHANGED <<envVars, main, snap, fn>>

\* A walker that leaves its loop when it reaches the stop block.
AdvanceStopsEarly(r) ==
    LET q == [r EXCEPT !.current_block = r.current_block + 1, !.upd = 0,
                       !.tx_pool = << >>, !.erc_pool = EmptyPool,
                       !.erc1155_pool = EmptyPool, !.erc_sale_pool = EmptyPool]
    IN  IF q.current_block >= r.range[2]
        THEN [q EXCEPT !.pc = "done"]
        ELSE [q EXCEPT !.pc = "fetch"]

\* current_block += 1; if current_block > stream_stop_block { break }.  The
\* pools of the block go out of scope.
Advance(r) ==
    LET q == [r EXCEPT !.current_block = r.current_block + 1, !.upd = 0,
                       !.tx_pool = << >>, !.erc_pool = EmptyPool,
                       !.erc1155_pool = EmptyPool, !.erc_sale_pool = EmptyPool]
    IN  IF q.current_block > r.range[2]
        THEN [q EXCEPT !.pc = "done"]
        ELSE [q EXCEPT !.pc = "fetch"]

\* The store requests of a block in the order of the code, each with the
\* flags that guard it.  Pool::commit sends nothing for an empty pool.
FlushStages == <<"insert_txs", "commit_erc", "commit_erc1155", "commit_sales",
                 "commit_wallets", "set_last_block">>

\* A flush whose requests do not look at the feature flags.
StageOnUnflagged(r, a, s) ==
    /\ ~a.debug
    /\ CASE s = "insert_txs" -> TRUE
         [] s = "commit_erc" -> Pool_len(r.erc_pool) > 0
         [] s = "commit_erc1155" -> Pool_len(r.erc1155_pool) > 0
         [] s = "commit_sales" -> Pool_len(r.erc_sale_pool) > 0
         [] s = "commit_wallets" -> Pool_len(r.wallet_pool) > 0
         [] OTHER -> TRUE

StageOn(r, a, s) ==
    /\ ~a.debug
    /\ CASE s = "insert_txs" -> a.feature_transactions
         [] s = "commit_erc" -> a.feature_erc_transfers /\ Pool_len(r.erc_pool) > 0
         [] s = "commit_erc1155" -> a.feature_erc_transfers /\ Pool_len(r.erc1155_pool) > 0
         [] s = "commit_sales" -> a.feature_erc_721_sales /\ Pool_len(r.erc_sale_pool) > 0
         [] s = "commit_wallets" -> a.feature_wallet_updates /\ Pool_len(r.wallet_pool) > 0
         [] OTHER -> TRUE

\* A walker that checkpoints the block before any of its commits.
GotoCheckpointFirst(r, a, from) ==
    IF StageOn(r, a, "set_last_block")
    THEN [r EXCEPT !.pc = "set_last_block", !.upd = 1]
    ELSE Advance(r)

\* The walker at the first request at or after stage `from` that is sent;
\* past the last one it advances to the next block.
Goto(r, a, from) ==
    IF \E j \in from..Len(FlushStages) : StageOn(r, a, FlushStages[j])
    THEN LET j == CHOOSE j \in from..Len(FlushStages) :
                    /\ StageOn(r, a, FlushStages[j])
                    /\ \A i \in from..(j - 1) : ~StageOn(r, a, FlushStages[i])
         IN  [r EXCEPT !.pc = FlushStages[j], !.upd = 1]
    ELSE Advance(r)

\* settings.get("largest_block_by_tx_num"), then `if start > stop { return }`.
WReadLargest(p) ==
    /\ procs[p].pc = "read_largest"
    /\ LET r == procs[p]
           got == Settings_get(settings, "largest_block_by_tx_num")
           q == [r EXCEPT !.largest = IF got = << >> THEN NoLargest ELSE got[1]]
       IN  procs' = [procs EXCEPT ![p] =
                        IF r.range[1] > r.range[2]
                        THEN [q EXCEPT !.pc = "done"]
                        ELSE [q EXCEPT !.pc = "fetch", !.current_block = r.range[1]]]
    /\ UNCHANGED <<envVars, main, storeVars, hist, snap, fn>>

\* A walker that runs the transaction loop and the flush for every block.
WFetchAlwaysDecodes(p) ==
    /\ procs[p].pc = "fetch"
    /\ procs' = [procs EXCEPT ![p] = [@ EXCEPT !.pc = "decode"]]
    /\ UNCHANGED <<envVars, main, storeVars, hist, snap, fn>>

\* block_with_txs(current_block) returns the block.
WFetch(p) ==
    /\ procs[p].pc = "fetch"
    /\ LET r == procs[p]
           num_txs == Len(BlockTxs(r.current_block))
       IN  procs' = [procs EXCEPT ![p] =
                        IF num_txs > 0
                        THEN IF ~args.debug /\ num_txs > r.largest.tx_num
                             THEN [r EXCEPT !.pc = "set_largest"]
                             ELSE [r EXCEPT !.pc = "decode"]
                        ELSE Goto(r, args, Len(FlushStages))]
    /\ UNCHANGED <<envVars, main, storeVars, hist, snap, fn>>

\* block_with_txs fails or returns no block: the unwrap panics the task.
WFetchFail(p) ==
    /\ procs[p].pc = "fetch"
    /\ procs' = [procs EXCEPT ![p] = [@ EXCEPT !.pc = "panicked"]]
    /\ UNCHANGED <<envVars, main, storeVars, hist, snap, fn>>

\* settings.set("largest_block_by_tx_num", ..).
WSetLargest(p) ==
    /\ procs[p].pc = "set_largest"
    /\ LET r == procs[p]
           lb == [number |-> r.current_block, tx_num |-> Len(BlockTxs(r.current_block))]
       IN  /\ settings' = Settings_set(settings, "largest_block_by_tx_num", lb)
           /\ procs' = [procs EXCEPT ![p] = [r EXCEPT !.largest = lb, !.pc = "decode"]]
    /\ hist' = [hist EXCEPT !.walkerWrote = TRUE]
    /\ UNCHANGED <<envVars, main, indexes, docs, wallets, snap, fn>>

\* The tx loop of the block: every receipt is fetched and decoded into the
\* pools; a decoder's unwrap may panic the task.
WDecode(p) ==
    /\ procs[p].pc = "decode"
    /\ LET r == procs[p]
           st == DecodeBlock(r.wallet_pool, r.current_block, args)
       IN  procs' = [procs EXCEPT ![p] =
                        IF st.panic
                        THEN [r EXCEPT !.pc = "panicked"]
                        ELSE Goto([r EXCEPT !.wallet_pool = st.wallet_pool,
                                            !.tx_pool = st.tx_pool,
                                            !.erc_pool = st.erc_pool,
                                            !.erc1155_pool = st.erc1155_pool,
                                            !.erc_sale_pool = st.erc_sale_pool],
                                  args, 1)]
    /\ UNCHANGED <<envVars, main, storeVars, hist, snap, fn>>

\* A walker that stores the block's transactions before the failed receipt
\* stops it.
WDecodeFailAfterInsert(p) ==
    /\ procs[p].pc = "decode"
    /\ docs' = [docs EXCEPT !["transactions"] =
                   InsertOrdered(indexes, "transactions", @,
                                 DecodeBlock(EmptyPool, procs[p].current_block, args).tx_pool, 1)]
    /\ procs' = [procs EXCEPT ![p] = [@ EXCEPT !.pc = "panicked"]]
    /\ UNCHANGED <<envVars, main, settings, indexes, wallets, hist, snap, fn>>

\* transaction_receipt fails or returns no receipt: the expect panics.
WDecodeFail(p) ==
    /\ procs[p].pc = "decode"
    /\ procs' = [procs EXCEPT ![p] = [@ EXCEPT !.pc = "panicked"]]
    /\ UNCHANGED <<envVars, main, storeVars, hist, snap, fn>>

\* The walker's first store write of the stream is on record.
Wrote(h) == [h EXCEPT !.walkerWrote = TRUE]

\* transactions.insert_many(&tx_pool, None).ok(): an ordered insert whose
\* error is dropped.
WInsertTxs(p) ==
    /\ procs[p].pc = "insert_txs"
    /\ LET r == procs[p]
       IN  /\ docs' = [docs EXCEPT !["transactions"] =
                          InsertOrdered(indexes, "transactions", @, r.tx_pool, 1)]
           /\ procs' = [procs EXCEPT ![p] = Goto(r, args, 2)]
    /\ hist' = Wrote(hist)
    /\ UNCHANGED <<envVars, main, settings, indexes, wallets, snap, fn>>

\* A commit that stores every buffered record whatever the collection holds.
CommitAppending(c, pool) ==
    docs[c] (+) [d \in { pool.inserts[k] : k \in 1..Len(pool.inserts) } |->
                    Cardinality({ k \in 1..Len(pool.inserts) : pool.inserts[k] = d })]

\* Pool::commit of a pool of records: one unordered insert_many.
CommitInserts(c, pool) == InsertUnordered(indexes, c, docs[c], pool.inserts, 1)

WCommitErc(p) ==
    /\ procs[p].pc = "commit_erc"
    /\ LET r == procs[p]
       IN  /\ docs' = [docs EXCEPT !["erc_transfers"] = CommitInserts("erc_transfers", r.erc_pool)]
           /\ procs' = [procs EXCEPT ![p] = Goto([r EXCEPT !.erc_pool = EmptyPool], args, 3)]
    /\ hist' = Wrote(hist)
    /\ UNCHANGED <<envVars, main, settings, indexes, wallets, snap, fn>>

WCommitErc1155(p) ==
    /\ procs[p].pc = "commit_erc1155"
    /\ LET r == procs[p]
       IN  /\ docs' = [docs EXCEPT !["erc1155_transfers"] =
                          CommitInserts("erc1155_transfers", r.erc1155_pool)]
           /\ procs' = [procs EXCEPT ![p] = Goto([r EXCEPT !.erc1155_pool = EmptyPool], args, 4)]
    /\ hist' = Wrote(hist)
    /\ UNCHANGED <<envVars, main, settings, indexes, wallets, snap, fn>>

WCommitSales(p) ==
    /\ procs[p].pc = "commit_sales"
    /\ LET r == procs[p]
       IN  /\ docs' = [docs EXCEPT !["erc721_sales"] =
                          CommitInserts("erc721_sales", r.erc_sale_pool)]
           /\ procs' = [procs EXCEPT ![p] = Goto([r EXCEPT !.erc_sale_pool = EmptyPool], args, 5)]
    /\ hist' = Wrote(hist)
    /\ UNCHANGED <<envVars, main, settings, indexes, wallets, snap, fn>>

\* Pool::commit of the wallet pool: one update_one (upsert) per buffered
\* update, in order, each its own request; the pool is cleared at the end.
WCommitWallets(p) ==
    /\ procs[p].pc = "commit_wallets"
    /\ LET r == procs[p]
           us == r.wallet_pool.updates
       IN  /\ wallets' = UpsertWallet(wallets, us[r.upd])
           /\ hist' = Wrote(hist)
           /\ procs' = [procs EXCEPT ![p] =
                           IF r.upd < Len(us)
                           THEN [r EXCEPT !.upd = r.upd + 1]
                           ELSE Goto([r EXCEPT !.wallet_pool = EmptyPool], args, 6)]
    /\ UNCHANGED <<envVars, main, settings, indexes, docs, snap, fn>>

\* settings.set("last_block", current_block.to_string()), then the advance.
WSetLastBlock(p) ==
    /\ procs[p].pc = "set_last_block"
    /\ LET r == procs[p]
       IN  /\ settings' = Settings_set(settings, "last_block", ToString(r.current_block))
           /\ procs' = [procs EXCEPT ![p] = Advance(r)]
    /\ hist' = Wrote(hist)
    /\ UNCHANGED <<envVars, main, indexes, docs, wallets, snap, fn>>

(* ------------------------------------------------------------------ *)
(* The supervisor: main                                               *)
(* ------------------------------------------------------------------ *)
\* From the connect to the chunk list.
MainPlan ==
    /\ procs[0].pc = "plan"
    /\ LET start == sync_start(args)
           stop == sync_stop(args, head)
           parallelism == available_parallelism(args, cores)
           chunks == chunk_u64(start, stop, chunk_size_of(start, stop, parallelism))
       IN  /\ main' = [main EXCEPT !.chunks = chunks, !.parallelism = parallelism, !.i = 0]
           /\ procs' = [k \in 0..Len(chunks) |->
                            IF k = 0 THEN [procs[0] EXCEPT !.pc = "spawn"] ELSE IdleProc]
    /\ UNCHANGED <<envVars, storeVars, hist, snap, fn>>

\* tasks.retain(|t| !t.is_finished()).
Retain(tasks) == SelectSeq(tasks, LAMBDA t : ~Finished(procs[t]))

\* One iteration of `while i < chunks.len()`: past the sleep the chunk is
\* spawned whatever the retain left; after the last one main is at join_all.
MainSpawn ==
    /\ procs[0].pc = "spawn"
    /\ main.i < Len(main.chunks)
    /\ LET tasks == IF Len(main.tasks) >= main.parallelism
                    THEN Retain(main.tasks)
                    ELSE main.tasks
           t == main.i + 1
       IN  /\ main' = [main EXCEPT !.tasks = Append(tasks, t), !.i = t]
           /\ procs' = [procs EXCEPT
                           ![t] = [IdleProc EXCEPT !.pc = "ci_read", !.range = main.chunks[t]],
                           ![0] = IF t < Len(main.chunks) THEN @ ELSE [@ EXCEPT !.pc = "join"]]
    /\ UNCHANGED <<envVars, storeVars, hist, snap, fn>>

\* main built with overflow checks: `sync_stop - sync_start` panics when the
\* start lies above the stop, before any walker is spawned.
MainPlanOverflow ==
    /\ procs[0].pc = "plan"
    /\ sync_start(args) > sync_stop(args, head)
    /\ main' = [main EXCEPT !.outcome = "failed"]
    /\ procs' = [procs EXCEPT ![0] = [@ EXCEPT !.pc = "exited"]]
    /\ UNCHANGED <<envVars, storeVars, hist, snap, fn>>

\* A join that returns while tasks are still running.
MainJoinNoWait ==
    /\ procs[0].pc = "join"
    /\ main' = [main EXCEPT !.outcome = "completed"]
    /\ procs' = [procs EXCEPT ![0] = [@ EXCEPT !.pc = "exited"]]
    /\ UNCHANGED <<envVars, storeVars, hist, snap, fn>>

\* join_all(tasks).await returns once every task held has ended; its results
\* are dropped, main prints "All done!" and returns.
MainJoin ==
    /\ procs[0].pc = "join"
    /\ \A k \in 1..Len(main.tasks) : Finished(procs[main.tasks[k]])
    /\ main' = [main EXCEPT !.outcome = "completed"]
    /\ procs' = [procs EXCEPT ![0] = [@ EXCEPT !.pc = "exited"]]
    /\ UNCHANGED <<envVars, storeVars, hist, snap, fn>>

(* ------------------------------------------------------------------ *)
(* Runs                                                               *)
(* ------------------------------------------------------------------ *)
\* Args as clap parses it; the flags the model does not vary hold their
\* defaults, except that every record feature is on.
MkArgs(debug, replay, start_block, stop_block, threads, wallet_updates) ==
    [debug |-> debug, replay |-> replay, start_block |-> start_block,
     stop_block |-> stop_block, threads |-> threads, empty_logs |-> FALSE,
     feature_erc_transfers |-> TRUE, feature_erc_721_sales |-> TRUE,
     feature_transactions |-> TRUE, feature_wallet_updates |-> wallet_updates]

\* eth_blockNumber when main asks for it.
ChainHead == MARKETPLACE_V2_DEPLOY_BLOCK + 2 + REORG_SAFTY_OFFSET

\* A database that no run has touched.
FreshStore ==
    /\ settings = EmptySettings
    /\ indexes = {}
    /\ docs = EmptyDocs
    /\ wallets = {}

\* A process at the start of main.
FreshRun ==
    /\ main = InitMain
    /\ procs = [k \in {0} |-> MainProc]
    /\ hist = InitHist

\* The next run of the program on the same store with the same arguments,
\* once the run before it has returned.
Restart ==
    /\ procs[0].pc = "exited"
    /\ run < MaxRuns
    /\ run' = run + 1
    /\ snap' = docs
    /\ main' = InitMain
    /\ procs' = [k \in {0} |-> MainProc]
    /\ hist' = InitHist
    /\ UNCHANGED <<args, cores, head, storeVars, fn>>

(* Spec: runs without replay on a fresh database, provider failures included. *)
SpecArgs ==
    { MkArgs(d, FALSE, MARKETPLACE_V2_DEPLOY_BLOCK - 1, MARKETPLACE_V2_DEPLOY_BLOCK + 2, 0, FALSE) :
        d \in BOOLEAN }
    \cup { MkArgs(FALSE, FALSE, MARKETPLACE_V2_DEPLOY_BLOCK, 0, t, TRUE) : t \in 0..MaxThreads }
    \cup { MkArgs(FALSE, FALSE, ERC1155_DEPLOY_BLOCK, ERC1155_DEPLOY_BLOCK + 1, 0, FALSE) }

Init ==
    /\ args \in SpecArgs
    /\ cores \in 1..MaxCores
    /\ head = ChainHead
    /\ run = 1
    /\ snap = EmptyDocs
    /\ fn = << >>
    /\ FreshStore
    /\ FreshRun

Next ==
    \/ MainPlan
    \/ MainSpawn
    \/ MainJoin
    \/ \E p \in DOMAIN procs : CiRead(p)
    \/ \E p \in DOMAIN procs : CiCreate(p)
    \/ \E p \in DOMAIN procs : CiMark(p)
    \/ \E p \in DOMAIN procs : WReadLargest(p)
    \/ \E p \in DOMAIN procs : WFetch(p)
    \/ \E p \in DOMAIN procs : WSetLargest(p)
    \/ \E p \in DOMAIN procs : WDecode(p)
    \/ \E p \in DOMAIN procs : WInsertTxs(p)
    \/ \E p \in DOMAIN procs : WCommitErc(p)
    \/ \E p \in DOMAIN procs : WCommitErc1155(p)
    \/ \E p \in DOMAIN procs : WCommitSales(p)
    \/ \E p \in DOMAIN procs : WCommitWallets(p)
    \/ \E p \in DOMAIN procs : WSetLastBlock(p)
    \/ \E p \in DOMAIN procs : WFetchFail(p)
    \/ \E p \in DOMAIN procs : WDecodeFail(p)

Spec == Init /\ [][Next]_vars

(* SpecReplay: runs with replay on a fresh database. *)
ReplayArgs ==
    { MkArgs(FALSE, TRUE, MARKETPLACE_V2_DEPLOY_BLOCK + 2, MARKETPLACE_V2_DEPLOY_BLOCK + 4, t, FALSE) :
        t \in 0..MaxThreads }
    \cup { MkArgs(d, TRUE, MARKETPLACE_V2_DEPLOY_BLOCK - 1, MARKETPLACE_V2_DEPLOY_BLOCK, 0, TRUE) :
               d \in BOOLEAN }
    \cup { MkArgs(FALSE, TRUE, ERC1155_DEPLOY_BLOCK, ERC1155_DEPLOY_BLOCK + 1, 0, FALSE) }

InitReplay ==
    /\ args \in ReplayArgs
    /\ cores \in 1..MaxCores
    /\ head = ChainHead
    /\ run = 1
    /\ snap = EmptyDocs
    /\ fn = << >>
    /\ FreshStore
    /\ FreshRun

NextReplay ==
    \/ MainPlan
    \/ MainSpawn
    \/ MainJoin
    \/ \E p \in DOMAIN procs : CiRead(p)
    \/ \E p \in DOMAIN procs : CiCreate(p)
    \/ \E p \in DOMAIN procs : CiMark(p)
    \/ \E p \in DOMAIN procs : WDrop(p)
    \/ \E p \in DOMAIN procs : WReadLargest(p)
    \/ \E p \in DOMAIN procs : WFetch(p)
    \/ \E p \in DOMAIN procs : WSetLargest(p)
    \/ \E p \in DOMAIN procs : WDecode(p)
    \/ \E p \in DOMAIN procs : WInsertTxs(p)
    \/ \E p \in DOMAIN procs : WCommitErc(p)
    \/ \E p \in DOMAIN procs : WCommitErc1155(p)
    \/ \E p \in DOMAIN procs : WCommitSales(p)
    \/ \E p \in DOMAIN procs : WCommitWallets(p)
    \/ \E p \in DOMAIN procs : WSetLastBlock(p)
    \/ \E p \in DOMAIN procs : WFetchFail(p)
    \/ \E p \in DOMAIN procs : WDecodeFail(p)

SpecReplay == InitReplay /\ [][NextReplay]_vars

(* SpecRerun: the same run repeated on its own store, every walker running *)
(* to completion.                                                          *)
RerunArgs ==
    { MkArgs(FALSE, FALSE, MARKETPLACE_V2_DEPLOY_BLOCK - 1, MARKETPLACE_V2_DEPLOY_BLOCK + 1, t, w) :
        t \in 0..MaxThreads, w \in BOOLEAN }
    \cup { MkArgs(FALSE, FALSE, ERC1155_DEPLOY_BLOCK, ERC1155_DEPLOY_BLOCK + 1, 0, FALSE) }

InitRerun ==
    /\ args \in RerunArgs
    /\ cores \in 1..MaxCores
    /\ head = ChainHead
    /\ run = 1
    /\ snap = EmptyDocs
    /\ fn = << >>
    /\ FreshStore
    /\ FreshRun

NextRerun ==
    \/ MainPlan
    \/ MainSpawn
    \/ MainJoin
    \/ Restart
    \/ \E p \in DOMAIN procs : CiRead(p)
    \/ \E p \in DOMAIN procs : CiCreate(p)
    \/ \E p \in DOMAIN procs : CiMark(p)
    \/ \E p \in DOMAIN procs : WReadLargest(p)
    \/ \E p \in DOMAIN procs : WFetch(p)
    \/ \E p \in DOMAIN procs : WSetLargest(p)
    \/ \E p \in DOMAIN procs : WDecode(p)
    \/ \E p \in DOMAIN procs : WInsertTxs(p)
    \/ \E p \in DOMAIN procs : WCommitErc(p)
    \/ \E p \in DOMAIN procs : WCommitErc1155(p)
    \/ \E p \in DOMAIN procs : WCommitSales(p)
    \/ \E p \in DOMAIN procs : WCommitWallets(p)
    \/ \E p \in DOMAIN procs : WSetLastBlock(p)

SpecRerun == InitRerun /\ [][NextRerun]_vars

(* SpecChunk: calls of chunk_u64 on bounded inputs. *)
ChunkCalls ==
    { [op |-> "chunk_u64", base |-> b, max |-> b + s, chunk_size |-> c,
       ret |-> << >>, done |-> FALSE] :
        b \in {0, 1, MARKETPLACE_V2_DEPLOY_BLOCK}, s \in 0..MaxSpan, c \in 1..MaxChunkArg }

InitChunk ==
    /\ fn \in ChunkCalls
    /\ args = MkArgs(FALSE, FALSE, 0, 0, 0, FALSE)
    /\ cores = 1
    /\ head = ChainHead
    /\ run = 1
    /\ snap = EmptyDocs
    /\ FreshStore
    /\ FreshRun

ChunkCall ==
    /\ fn.op = "chunk_u64"
    /\ ~fn.done
    /\ fn' = [fn EXCEPT !.ret = chunk_u64(fn.base, fn.max, fn.chunk_size), !.done = TRUE]
    /\ UNCHANGED <<envVars, main, procs, storeVars, hist, snap>>

NextChunk == ChunkCall

SpecChunk == InitChunk /\ [][NextChunk]_vars

(* ------------------------------------------------------------------ *)
(* Calls of the walker's decoders on one log or one transaction       *)
(* ------------------------------------------------------------------ *)
Unregistered == "00000000000000000000000000000000000000c3"

\* The heights of the calls: around both deploy blocks.
DecodeHeights ==
    ((MARKETPLACE_V2_DEPLOY_BLOCK - 1)..(MARKETPLACE_V2_DEPLOY_BLOCK + 1))
    \cup ((ERC1155_DEPLOY_BLOCK - 1)..(ERC1155_DEPLOY_BLOCK + 1))

\* Receipt logs: well-formed transfers of registry contracts, the same
\* events from an address outside the registry, a TransferSingle whose
\* operator topic is the Transfer signature word, an ERC721 contract's log
\* in the ERC20 layout, and a log without topics.
DecodeLogs ==
    { TransferSingleLog(CHARM, WalletA, WalletA, WalletB, Uint42, Uint10, "bb01", "0x0"),
      TransferSingleLog(Unregistered, WalletA, WalletA, WalletB, Uint42, Uint10, "bb02", "0x0"),
      TransferLog721(AXIE, WalletA, WalletB, Uint99, "bb03", "0x0"),
      TransferLog20(WETH, WalletB, WalletA, Uint10, "bb04", "0x0"),
      TransferLog20(Unregistered, WalletB, WalletA, Uint10, "bb05", "0x0"),
      MkLog(CHARM, <<TopicWord(ERC1155_TRANSFER_SINGLE_TOPIC), TopicWord(ERC_TRANSFER_TOPIC),
                     AddrWord(WalletA), AddrWord(WalletB)>>,
            <<Uint42, Uint10>>, "bb06", "0x0"),
      TransferLog20(AXIE, WalletA, WalletB, Uint99, "bb07", "0x0"),
      MkLog(LegacyMarket, << >>, << >>, "bb08", "0x0") }

\* Transactions: a legacy sale, a Marketplace V2 sale, a transaction whose
\* receipt carries the events of both marketplaces, a plain token transfer
\* a transaction without logs, a Marketplace V2 sale whose token contract
\* logs an Approval before the Transfer, and a legacy sale whose receipt
\* also carries a log without topics (an anonymous event).
DecodeTxs ==
    { MkTx("cc01", WalletA, LegacyMarket,
           << AuctionSuccessfulLog(WalletA, WalletB, AXIE, Uint1000, "cc01", "0x0"),
              TransferLog721(AXIE, WalletA, WalletB, Uint99, "cc01", "0x1") >>),
      MkTx("cc02", WalletB, MarketV2,
           << OrderMatchedLog(WalletA, WalletB, Uint1000, Uint950, "cc02", "0x0"),
              TransferLog721(AXIE, WalletA, WalletB, Uint42, "cc02", "0x1") >>),
      MkTx("cc03", WalletB, MarketV2,
           << OrderMatchedLog(WalletA, WalletB, Uint1000, Uint950, "cc03", "0x0"),
              TransferLog721(AXIE, WalletA, WalletB, Uint42, "cc03", "0x1"),
              AuctionSuccessfulLog(WalletA, WalletB, AXIE, Uint1000, "cc03", "0x2") >>),
      MkTx("cc04", WalletB, WETH,
           << TransferLog20(WETH, WalletB, WalletA, Uint10, "cc04", "0x0") >>),
      MkTx("cc05", WalletA, "null", << >>),
      MkTx("cc06", WalletB, MarketV2,
           << OrderMatchedLog(WalletA, WalletB, Uint1000, Uint950, "cc06", "0x0"),
              ApprovalLog721(AXIE, WalletA, MarketV2, Uint42, "cc06", "0x1"),
              TransferLog721(AXIE, WalletA, WalletB, Uint42, "cc06", "0x2") >>),
      MkTx("cc07", WalletA, LegacyMarket,
           << AuctionSuccessfulLog(WalletA, WalletB, AXIE, Uint1000, "cc07", "0x0"),
              TransferLog721(AXIE, WalletA, WalletB, Uint99, "cc07", "0x1"),
              MkLog(LegacyMarket, << >>, << >>, "cc07", "0x2") >>) }

DecodeCalls ==
    { [op |-> "log", input |-> l, height |-> h, ret |-> << >>, done |-> FALSE] :
        l \in DecodeLogs, h \in DecodeHeights }
    \cup { [op |-> "sale", input |-> t, height |-> h, ret |-> << >>, done |-> FALSE] :
        t \in DecodeTxs, h \in DecodeHeights }

InitDecode ==
    /\ fn \in DecodeCalls
    /\ args = MkArgs(FALSE, FALSE, 0, 0, 0, FALSE)
    /\ cores = 1
    /\ head = ChainHead
    /\ run = 1
    /\ snap = EmptyDocs
    /\ FreshStore
    /\ FreshRun

\* The body of `for log in receipt.logs` for one log, on empty pools.
LogCall ==
    /\ fn.op = "log"
    /\ ~fn.done
    /\ fn' = [fn EXCEPT
                !.ret = LogLoop([erc_pool |-> EmptyPool, erc1155_pool |-> EmptyPool,
                                 panic |-> FALSE],
                                <<fn.input>>, 1, fn.height),
                !.done = TRUE]
    /\ UNCHANGED <<envVars, main, procs, storeVars, hist, snap>>

\* The `if args.feature_erc_721_sales` block for one transaction: the
\* branch taken and what its decoder returns.
SaleCall ==
    /\ fn.op = "sale"
    /\ ~fn.done
    /\ fn' = [fn EXCEPT
                !.ret = [path |-> SalePath(fn.height),
                         sale |-> SaleDecode(fn.input, fn.height)],
                !.done = TRUE]
    /\ UNCHANGED <<envVars, main, procs, storeVars, hist, snap>>

NextDecode ==
    \/ LogCall
    \/ SaleCall

SpecDecode == InitDecode /\ [][NextDecode]_vars

(* ------------------------------------------------------------------ *)
(* Calls of the planner: sync_stop in u64 arithmetic, and the plan    *)
(* ------------------------------------------------------------------ *)
\* A u64 as its four 16-bit limbs, least significant first.
LIMB == 65536

ToU64(n) == << n % LIMB, n \div LIMB, 0, 0 >>

\* a - b on limbs from position k with a borrow: the limbs of the difference
\* modulo 2^64, then the final borrow.
RECURSIVE sub_limbs(_, _, _, _)
sub_limbs(a, b, k, borrow) ==
    IF k > Len(a) THEN << borrow >>
    ELSE LET d == a[k] - b[k] - borrow
         IN  IF d < 0
             THEN << d + LIMB >> \o sub_limbs(a, b, k + 1, 1)
             ELSE << d >> \o sub_limbs(a, b, k + 1, 0)

\* u64 `-`: with overflow checks (the dev profile) an overflow panics,
\* without them (the release profile) the difference wraps.
u64_sub(a, b, overflow_checks) ==
    LET d == sub_limbs(a, b, 1, 0)
    IN  IF d[Len(a) + 1] = 1 /\ overflow_checks
        THEN Panic
        ELSE Some(SubSeq(d, 1, Len(a)))

\* The u64 is at most the integer n.
U64AtMost(a, n) ==
    /\ n >= 0
    /\ a[3] = 0
    /\ a[4] = 0
    /\ a[2] < LIMB \div 2
    /\ a[1] + LIMB * a[2] <= n

\* main: sync_stop as the build computes it.
sync_stop_u64(a, block_number, overflow_checks) ==
    IF a.stop_block > 0
    THEN Some(ToU64(a.stop_block))
    ELSE u64_sub(ToU64(block_number), ToU64(REORG_SAFTY_OFFSET), overflow_checks)

\* main from sync_start to the chunk list, for a sync_stop below 2^31.
\* `sync_stop - sync_start` overflows when the start lies above the stop: a
\* panic with overflow checks, else a difference above the base limit.
plan(a, block_number, cpus, overflow_checks) ==
    LET start == sync_start(a)
        stop == sync_stop(a, block_number)
        parallelism == available_parallelism(a, cpus)
    IN  IF start > stop
        THEN IF overflow_checks
             THEN Panic
             ELSE Some(chunk_u64(start, stop, CHUNK_SIZE_BASE_LIMIT \div parallelism))
        ELSE Some(chunk_u64(start, stop, chunk_size_of(start, stop, parallelism)))

\* The chain heads of the calls: below, at and above the reorg offset.
PlanHeads == {0, 1, 10, REORG_SAFTY_OFFSET - 1, REORG_SAFTY_OFFSET,
              REORG_SAFTY_OFFSET + 1, REORG_SAFTY_OFFSET + 5, REORG_SAFTY_OFFSET + 10}

PlanCalls ==
    { [op |-> "sync_stop", a |-> MkArgs(FALSE, FALSE, 0, s, 0, FALSE), head |-> h,
       cpus |-> 1, overflow_checks |-> c, ret |-> << >>, done |-> FALSE] :
        s \in {0, 8}, h \in PlanHeads, c \in BOOLEAN }
    \cup { [op |-> "plan", a |-> MkArgs(FALSE, FALSE, b, 0, 0, FALSE), head |-> h,
            cpus |-> n, overflow_checks |-> c, ret |-> << >>, done |-> FALSE] :
        b \in {0, 3, 7}, h \in { x \in PlanHeads : x >= REORG_SAFTY_OFFSET },
        n \in 1..MaxCores, c \in BOOLEAN }

InitPlan ==
    /\ fn \in PlanCalls
    /\ args = fn.a
    /\ cores = fn.cpus
    /\ head = fn.head
    /\ run = 1
    /\ snap = EmptyDocs
    /\ FreshStore
    /\ FreshRun

SyncStopCall ==
    /\ fn.op = "sync_stop"
    /\ ~fn.done
    /\ fn' = [fn EXCEPT !.ret = sync_stop_u64(args, head, fn.overflow_checks),
                        !.done = TRUE]
    /\ UNCHANGED <<envVars, main, procs, storeVars, hist, snap>>

PlanCall ==
    /\ fn.op = "plan"
    /\ ~fn.done
    /\ fn' = [fn EXCEPT !.ret = plan(args, head, cores, fn.overflow_checks),
                        !.done = TRUE]
    /\ UNCHANGED <<envVars, main, procs, storeVars, hist, snap>>

NextPlan ==
    \/ SyncStopCall
    \/ PlanCall

SpecPlan == InitPlan /\ [][NextPlan]_vars

(* ------------------------------------------------------------------ *)
(* Calls on a write pool and on the transactions insert, against a    *)
(* store whose indexes exist                                          *)
(* ------------------------------------------------------------------ *)
\* The update_one loop of Pool::commit from position k: an update whose
\* request fails is printed and the loop goes on.
RECURSIVE ApplyUpdates(_, _, _, _)
ApplyUpdates(ws, updates, failed, k) ==
    IF k > Len(updates) THEN ws
    ELSE ApplyUpdates(IF k \in failed THEN ws ELSE UpsertWallet(ws, updates[k]),
                      updates, failed, k + 1)

\* Pool::commit of a Pool<Wallet>: the unordered insert_many when there are
\* inserts, the updates one by one, then both buffers cleared.
Pool_commit(ix, ws, pool, failed) ==
    LET inserted == IF Len(pool.inserts) = 0
                    THEN ws
                    ELSE BagToSet(InsertUnordered(ix, "wallets", SetToBag(ws),
                                                  pool.inserts, 1))
    IN  [wallets |-> ApplyUpdates(inserted, pool.updates, failed, 1),
         pool |-> [pool EXCEPT !.updates = << >>, !.inserts = << >>]]

\* Wallet documents and wallet updates passed to the pool.
WalletDoc(address, block) ==
    [address |-> address, last_seen |-> [block |-> block, transaction |-> "0xdd01"]]

PoolInsertDocs ==
    { WalletDoc(to_string(WalletA), 1), WalletDoc(to_string(WalletA), 2),
      WalletDoc(to_string(WalletB), 1) }

PoolUpdateDocs ==
    { WalletProvider_update(to_string(w), b, "0xdd02") : w \in {WalletA, WalletB}, b \in {3, 4} }

\* The transactions of a block as the walker pushes them to tx_pool.
TxPoolOf(h) == DecodeBlock(EmptyPool, h, MkArgs(FALSE, FALSE, h, h, 0, FALSE)).tx_pool

PoolCalls ==
    { [op |-> o, pool |-> EmptyPool, calls |-> << >>, n |-> 0, last |-> << >>,
       tx_pool |-> IF o = "tx" THEN TxPoolOf(MARKETPLACE_V2_DEPLOY_BLOCK + 1) ELSE << >>,
       done |-> FALSE] : o \in {"pool", "tx"} }

\* A store after the index bootstrap that holds some wallets and some of the
\* block's transactions.
InitPool ==
    /\ fn \in PoolCalls
    /\ args = MkArgs(FALSE, FALSE, 0, 0, 0, FALSE)
    /\ cores = 1
    /\ head = ChainHead
    /\ run = 1
    /\ snap = EmptyDocs
    /\ settings = EmptySettings
    /\ indexes = UNION { IndexesOf(Collections[k]) : k \in 1..Len(Collections) }
    /\ wallets \in IF fn.op = "pool"
                   THEN { {}, {WalletDoc(to_string(WalletA), 0)} }
                   ELSE { {} }
    /\ docs \in IF fn.op = "tx"
                THEN { [EmptyDocs EXCEPT !["transactions"] = SetToBag(S)] :
                         S \in SUBSET { fn.tx_pool[k] : k \in 1..Len(fn.tx_pool) } }
                ELSE { EmptyDocs }
    /\ FreshRun

PoolInsertCall ==
    /\ fn.op = "pool"
    /\ fn.n < MaxPoolCalls
    /\ \E d \in PoolInsertDocs :
          fn' = [fn EXCEPT !.pool = Pool_insert(@, d),
                           !.calls = Append(@, <<"insert", d>>),
                           !.n = @ + 1]
    /\ UNCHANGED <<envVars, main, procs, storeVars, hist, snap>>

PoolUpdateCall ==
    /\ fn.op = "pool"
    /\ fn.n < MaxPoolCalls
    /\ \E u \in PoolUpdateDocs :
          fn' = [fn EXCEPT !.pool = Pool_update(@, u),
                           !.calls = Append(@, <<"update", u>>),
                           !.n = @ + 1]
    /\ UNCHANGED <<envVars, main, procs, storeVars, hist, snap>>

\* Pool::commit(true); `failed` are the positions of the updates whose
\* request returns an error.  last keeps the committed pool and the outcome.
PoolCommitCall ==
    /\ fn.op = "pool"
    /\ Pool_len(fn.pool) > 0
    /\ \E failed \in SUBSET (1..Len(fn.pool.updates)) :
          LET ret == Pool_commit(indexes, wallets, fn.pool, failed)
          IN  /\ wallets' = ret.wallets
              /\ fn' = [fn EXCEPT !.pool = ret.pool,
                                  !.calls = << >>,
                                  !.last = << [pool |-> fn.pool, failed |-> failed,
                                               before |-> wallets, after |-> ret.wallets,
                                               len |-> Pool_len(ret.pool)] >>]
    /\ UNCHANGED <<envVars, main, procs, settings, indexes, docs, hist, snap>>

\* transactions.insert_many(&tx_pool, None).await.ok() at the block's flush.
TxInsertCall ==
    /\ fn.op = "tx"
    /\ ~fn.done
    /\ docs' = [docs EXCEPT !["transactions"] =
                   InsertOrdered(indexes, "transactions", @, fn.tx_pool, 1)]
    /\ fn' = [fn EXCEPT !.done = TRUE]
    /\ UNCHANGED <<envVars, main, procs, settings, indexes, wallets, hist, snap>>

NextPool ==
    \/ PoolInsertCall
    \/ PoolUpdateCall
    \/ PoolCommitCall
    \/ TxInsertCall

SpecPool == InitPool /\ [][NextPool]_vars

(* SpecLoss: runs on a fresh database in which a store request of a     *)
(* block's flush may fail with an error other than duplicate-key.       *)
LossArgs ==
    { MkArgs(FALSE, FALSE, MARKETPLACE_V2_DEPLOY_BLOCK - 1, MARKETPLACE_V2_DEPLOY_BLOCK,
             0, TRUE),
      MkArgs(FALSE, FALSE, ERC1155_DEPLOY_BLOCK + 1, ERC1155_DEPLOY_BLOCK + 1, 0, FALSE) }

\* The request the walker is at returns an error (the connection is lost for
\* that request) and stores nothing.  insert_many's result goes through
\* .ok(), an update's error is printed, Pool::commit clears its buffers and
\* returns Ok: the walker goes on as after a success.
WRequestLost(p) ==
    /\ procs[p].pc \in {"insert_txs", "commit_erc", "commit_erc1155", "commit_sales",
                        "commit_wallets"}
    /\ LET r == procs[p]
       IN  /\ procs' = [procs EXCEPT ![p] =
                CASE r.pc = "insert_txs" -> Goto(r, args, 2)
                  [] r.pc = "commit_erc" -> Goto([r EXCEPT !.erc_pool = EmptyPool], args, 3)
                  [] r.pc = "commit_erc1155" ->
                       Goto([r EXCEPT !.erc1155_pool = EmptyPool], args, 4)
                  [] r.pc = "commit_sales" ->
                       Goto([r EXCEPT !.erc_sale_pool = EmptyPool], args, 5)
                  [] OTHER ->
                       IF r.upd < Len(r.wallet_pool.updates)
                       THEN [r EXCEPT !.upd = r.upd + 1]
                       ELSE Goto([r EXCEPT !.wallet_pool = EmptyPool], args, 6)]
           /\ hist' = [hist EXCEPT !.lost = @ \cup {<<p, r.current_block>>}]
    /\ UNCHANGED <<envVars, main, storeVars, snap, fn>>

InitLoss ==
    /\ args \in LossArgs
    /\ cores \in 1..MaxCores
    /\ head = ChainHead
    /\ run = 1
    /\ snap = EmptyDocs
    /\ fn = << >>
    /\ FreshStore
    /\ FreshRun

NextLoss ==
    \/ MainPlan
    \/ MainSpawn
    \/ MainJoin
    \/ \E p \in DOMAIN procs : CiRead(p)
    \/ \E p \in DOMAIN procs : CiCreate(p)
    \/ \E p \in DOMAIN procs : CiMark(p)
    \/ \E p \in DOMAIN procs : WReadLargest(p)
    \/ \E p \in DOMAIN procs : WFetch(p)
    \/ \E p \in DOMAIN procs : WSetLargest(p)
    \/ \E p \in DOMAIN procs : WDecode(p)
    \/ \E p \in DOMAIN procs : WInsertTxs(p)
    \/ \E p \in DOMAIN procs : WCommitErc(p)
    \/ \E p \in DOMAIN procs : WCommitErc1155(p)
    \/ \E p \in DOMAIN procs : WCommitSales(p)
    \/ \E p \in DOMAIN procs : WCommitWallets(p)
    \/ \E p \in DOMAIN procs : WSetLastBlock(p)
    \/ \E p \in DOMAIN procs : WRequestLost(p)

SpecLoss == InitLoss /\ [][NextLoss]_vars

(* SpecFlags: one walker over three blocks under every combination of the
   debug flag and the four feature flags, on a fresh database; over a
   range that ends with a block without transactions; and with the start
   block above the stop block. *)
FlagArgs ==
    { [MkArgs(d, FALSE, MARKETPLACE_V2_DEPLOY_BLOCK - 1, MARKETPLACE_V2_DEPLOY_BLOCK + 1, 1, w)
          EXCEPT !.feature_transactions = t, !.feature_erc_transfers = e,
                 !.feature_erc_721_sales = s] :
        d \in BOOLEAN, w \in BOOLEAN, t \in BOOLEAN, e \in BOOLEAN, s \in BOOLEAN }
    \cup { MkArgs(FALSE, FALSE, ERC1155_DEPLOY_BLOCK, ERC1155_DEPLOY_BLOCK + 2, 1, TRUE) }
    \cup { MkArgs(d, FALSE, MARKETPLACE_V2_DEPLOY_BLOCK + 1, MARKETPLACE_V2_DEPLOY_BLOCK + 2, 1, TRUE) :
               d \in BOOLEAN }
    \cup { MkArgs(FALSE, FALSE, MARKETPLACE_V2_DEPLOY_BLOCK + 1, MARKETPLACE_V2_DEPLOY_BLOCK, 1, TRUE) }

InitFlags ==
    /\ args \in FlagArgs
    /\ cores = 1
    /\ head = ChainHead
    /\ run = 1
    /\ snap = EmptyDocs
    /\ fn = << >>
    /\ FreshStore
    /\ FreshRun

NextFlags ==
    \/ MainPlan
    \/ MainPlanOverflow
    \/ MainSpawn
    \/ MainJoin
    \/ \E p \in DOMAIN procs : CiRead(p)
    \/ \E p \in DOMAIN procs : CiCreate(p)
    \/ \E p \in DOMAIN procs : CiMark(p)
    \/ \E p \in DOMAIN procs : WReadLargest(p)
    \/ \E p \in DOMAIN procs : WFetch(p)
    \/ \E p \in DOMAIN procs : WSetLargest(p)
    \/ \E p \in DOMAIN procs : WDecode(p)
    \/ \E p \in DOMAIN procs : WInsertTxs(p)
    \/ \E p \in DOMAIN procs : WCommitErc(p)
    \/ \E p \in DOMAIN procs : WCommitErc1155(p)
    \/ \E p \in DOMAIN procs : WCommitSales(p)
    \/ \E p \in DOMAIN procs : WCommitWallets(p)
    \/ \E p \in DOMAIN procs : WSetLastBlock(p)

SpecFlags == InitFlags /\ [][NextFlags]_vars

\* No step of NextFlags is left: main has returned, which it does only after
\* join_all (every task ended) or from the panic before any task is spawned.
Halted == procs[0].pc = "exited"

\* SpecFlags with every RPC and store call returning and the runtime polling
\* every spawned task: a step that can be taken is taken.  This is weak
\* fairness of NextFlags with its enabling condition written as the state
\* predicate ~Halted.
SpecFlagsFair == SpecFlags /\ ([]<>Halted \/ []<><<NextFlags>>_vars)

\* (end of the specifications)

(* ------------------------------------------------------------------ *)
(* Properties                                                         *)
(* ------------------------------------------------------------------ *)
\* C1: a run repeated over the same range, without replay, leaves every
\* record collection with exactly the unique keys the run before it left,
\* and no unique key is held twice.
C1_RerunKeepsKeys ==
    run > 1 =>
        \A c \in RecordCollections :
            /\ Keys(c, docs[c]) = Keys(c, snap[c])
            /\ ~HasDuplicates(c, docs[c])

\* The second run has returned over a range whose four transactions, their
\* transfers and their sales the first run stored.
C1_RerunDone ==
    /\ run = 2
    /\ procs[0].pc = "exited"
    /\ Cardinality(Keys("transactions", docs["transactions"])) = 4
    /\ docs["erc_transfers"] # EmptyBag

\* The block a stored last_block value names (the decimal string read back).
BlockOf(value) ==
    CHOOSE h \in ((MARKETPLACE_V2_DEPLOY_BLOCK - 1)..(MARKETPLACE_V2_DEPLOY_BLOCK + 4))
                     \cup (ERC1155_DEPLOY_BLOCK..(ERC1155_DEPLOY_BLOCK + 1)) :
        ToString(h) = value

LastBlock ==
    IF Settings_get(settings, "last_block") = << >>
    THEN -1
    ELSE BlockOf(Settings_get(settings, "last_block")[1])

\* C2: once a walker has completed block B, the setting last_block is at
\* least B in every later state, several walkers writing it or not.
C2_LastBlockCoversCompleted ==
    ~args.debug =>
        \A p \in Walkers :
            procs[p].current_block > procs[p].range[1] =>
                LastBlock >= procs[p].current_block - 1

\* C3: no step of a run lowers the last_seen.block stored for an address.
C3_LastSeenNeverDecreases ==
    [][\A d \in wallets : \A e \in wallets' :
            d.address = e.address => e.last_seen.block >= d.last_seen.block]_vars

\* C4: with replay, no collection is dropped after a walker has written a
\* record or a checkpoint.
C4_DropsBeforeWrites == args.replay => ~hist.lateDrop

\* Every chunk has its walker, and every walker is past its reset.
AllResetsDone ==
    /\ args.replay
    /\ Len(main.chunks) > 0
    /\ main.i = Len(main.chunks)
    /\ \A p \in Walkers : procs[p].phase = "stream"

\* C5: with replay, once every walker has finished its reset, every
\* collection has its bootstrap marker and its unique index.
C5_MarkersAndIndexesAfterResets ==
    AllResetsDone =>
        \A k \in 1..Len(Collections) :
            /\ Settings_get(settings, index_setup_key(Collections[k])) # << >>
            /\ HasUniqueIndex(indexes, Collections[k])

\* C6: with debug set, no step of a run changes the document store.
C6_DebugWritesNothing == [][args.debug => storeVars' = storeVars]_vars

\* C7: when a walker task has panicked, the run does not end as a normal
\* completion: its outcome is the failure.
C7_PanicSurfaces ==
    (procs[0].pc = "exited" /\ \E p \in Walkers : procs[p].pc = "panicked")
        => main.outcome = "failed"

\* The walker tasks spawned and not finished.
Unfinished == { p \in Walkers : procs[p].pc \notin {"idle", "done", "panicked"} }

\* C8: at every moment the walker tasks spawned and not finished number at
\* most P = min(configured thread count if > 0, available cores, 32).
C8_UnfinishedAtMostP == Cardinality(Unfinished) <= available_parallelism(args, cores)

Min(a, b) == IF a <= b THEN a ELSE b

\* The chunks [start + k*C, min(start + (k+1)*C - 1, stop)], k = 0, 1, ..,
\* while start + k*C <= stop.
ChunksAsSpecified(start, stop, C) ==
    [k \in 1..((stop - start) \div C + 1) |->
        <<start + (k - 1) * C, Min(start + k * C - 1, stop)>>]

\* C9: for start <= stop and C >= 1, chunk_u64(start, stop, C) returns
\* exactly the chunks [start + k*C, min(start + (k+1)*C - 1, stop)], so that
\* no chunk holds more than C blocks.
C9_ChunksAsSpecified ==
    fn.done =>
        /\ fn.ret = ChunksAsSpecified(fn.base, fn.max, fn.chunk_size)
        /\ \A k \in 1..Len(fn.ret) : fn.ret[k][2] - fn.ret[k][1] + 1 <= fn.chunk_size

\* C10: after any sequence of runs the sales collection holds at most one
\* Sale per transaction_id, and a walker's sale pool holds at most one Sale
\* per transaction.
C10_OneSalePerTransaction ==
    /\ \A d \in BagToSet(docs["erc721_sales"]) :
        /\ CopiesIn(d, docs["erc721_sales"]) = 1
        /\ \A e \in BagToSet(docs["erc721_sales"]) :
               d.transaction_id = e.transaction_id => d = e
    /\ \A p \in DOMAIN procs :
        LET inserts == procs[p].erc_sale_pool.inserts
        IN  \A i, j \in 1..Len(inserts) :
                inserts[i].transaction_id = inserts[j].transaction_id => i = j

\* A walker of the second run is about to commit a sale of a transaction
\* whose sale the store already holds.
C10_SaleCommittedAgain ==
    /\ run = 2
    /\ \E p \in DOMAIN procs :
        /\ procs[p].pc = "commit_sales"
        /\ \E k \in 1..Len(procs[p].erc_sale_pool.inserts) :
               procs[p].erc_sale_pool.inserts[k].transaction_id
                   \in Keys("erc721_sales", docs["erc721_sales"])

(* ------------------------------------------------------------------ *)
(* C11 - Height-gated dispatch: a log at a block <= 16171588 yields   *)
(* no ERC1155Transfer; a Sale at a block <= 16027461 comes from the   *)
(* legacy decoder, never from the Marketplace V2 decoder, and a Sale  *)
(* at a block > 16027461 comes from the Marketplace V2 decoder, never *)
(* from the legacy one.                                               *)
(* ------------------------------------------------------------------ *)
C11_HeightGatedDispatch ==
    /\ (fn.op = "log" /\ fn.done /\ fn.height <= ERC1155_DEPLOY_BLOCK)
           => Len(fn.ret.erc1155_pool.inserts) = 0
    /\ (fn.op = "sale" /\ fn.done /\ fn.ret.sale.kind = "some")
           => IF fn.height <= MARKETPLACE_V2_DEPLOY_BLOCK
              THEN /\ fn.ret.path = "legacy_erc_sale"
                   /\ fn.ret.sale = legacy_erc_sale(fn.input, fn.height)
              ELSE /\ fn.ret.path = "order_matched"
                   /\ fn.ret.sale = order_matched(fn.input, fn.height)

\* A transaction with an OrderMatched event was decoded at a height at or
\* below the Marketplace V2 deploy block.
C11_OrderMatchedBelowGate ==
    /\ fn.op = "sale"
    /\ fn.done
    /\ fn.height <= MARKETPLACE_V2_DEPLOY_BLOCK
    /\ has_order_matched(fn.input.logs).kind = "some"

(* ------------------------------------------------------------------ *)
(* C12 - Registry membership: every ERCTransfer buffered for a log    *)
(* has as token the address of a Contract Registry entry and as erc   *)
(* that entry's category; a Transfer log from an address outside the  *)
(* registry yields no record.                                         *)
(* ------------------------------------------------------------------ *)
C12_RegistryMembership ==
    (fn.op = "log" /\ fn.done)
        => /\ \A k \in 1..Len(fn.ret.erc_pool.inserts) :
                LET transfer == fn.ret.erc_pool.inserts[k]
                IN  /\ transfer.token \in DOMAIN contract_list
                    /\ transfer.erc = contract_list[transfer.token]
           /\ to_string(fn.input.address) \notin DOMAIN contract_list
                => /\ Len(fn.ret.erc_pool.inserts) = 0
                   /\ Len(fn.ret.erc1155_pool.inserts) = 0

\* A Transfer log of an address outside the registry was dispatched.
C12_UnregisteredTransferLog ==
    /\ fn.op = "log"
    /\ fn.done
    /\ HasTopic(fn.input, ERC_TRANSFER_TOPIC)
    /\ to_string(fn.input.address) \notin DOMAIN contract_list

(* ------------------------------------------------------------------ *)
(* C13 - Each receipt log yields zero or one transfer record: the     *)
(* walker never buffers both an ERC1155Transfer and an ERCTransfer    *)
(* for the same log, whatever its topics.                             *)
(* ------------------------------------------------------------------ *)
C13_AtMostOneRecordPerLog ==
    (fn.op = "log" /\ fn.done)
        => Len(fn.ret.erc1155_pool.inserts) + Len(fn.ret.erc_pool.inserts) <= 1

C15_AllTransactionsStored ==
    (fn.op = "tx" /\ fn.done)
        => \A k \in 1..Len(fn.tx_pool) :
              fn.tx_pool[k].hash \in Keys("transactions", docs["transactions"])

(* ------------------------------------------------------------------ *)
(* C16 - Pool.commit attempts every buffered insert and every         *)
(* buffered update even when some fail: after it every buffered       *)
(* insert's key is stored, every update whose request did not fail is *)
(* applied, and both buffers are empty (len() = 0).                   *)
(* ------------------------------------------------------------------ *)
C16_CommitAttemptsAll ==
    \A j \in 1..Len(fn.last) :
        LET c == fn.last[j]
        IN  /\ c.len = 0
            /\ \A k \in 1..Len(c.pool.inserts) :
                  c.pool.inserts[k].address \in { w.address : w \in c.after }
            /\ \A k \in 1..Len(c.pool.updates) :
                  k \notin c.failed
                      => [address |-> c.pool.updates[k][1].address,
                          last_seen |-> c.pool.updates[k][2].last_seen] \in c.after

\* A commit in which an insert met a stored key before an insert of a new
\* key, and an update failed before an update that did not.
C16_CommitWithFailures ==
    \E j \in 1..Len(fn.last) :
        LET c == fn.last[j]
        IN  /\ \E k, l \in 1..Len(c.pool.inserts) :
                  /\ k < l
                  /\ c.pool.inserts[k].address \in { w.address : w \in c.before }
                  /\ c.pool.inserts[l].address \notin { w.address : w \in c.before }
            /\ \E k, l \in 1..Len(c.pool.updates) :
                  k < l /\ k \in c.failed /\ l \notin c.failed

(* ------------------------------------------------------------------ *)
(* C17 - After any sequence of Pool.update calls no two buffered      *)
(* updates have equal filters, and for each filter the buffered       *)
(* update document is the one of the most recent call with it.        *)
(* ------------------------------------------------------------------ *)
UpdateCallsWith(filter) ==
    { i \in 1..Len(fn.calls) : fn.calls[i][1] = "update" /\ fn.calls[i][2][1] = filter }

C17_LastUpdateWins ==
    fn.op = "pool"
        => /\ \A j, k \in 1..Len(fn.pool.updates) :
                j # k => fn.pool.updates[j][1] # fn.pool.updates[k][1]
           /\ \A k \in 1..Len(fn.pool.updates) :
                LET with == UpdateCallsWith(fn.pool.updates[k][1])
                    latest == CHOOSE i \in with : \A i2 \in with : i2 <= i
                IN  /\ with # {}
                    /\ fn.pool.updates[k] = fn.calls[latest][2]
           /\ \A i \in 1..Len(fn.calls) :
                fn.calls[i][1] = "update"
                    => \E k \in 1..Len(fn.pool.updates) :
                          fn.pool.updates[k][1] = fn.calls[i][2][1]

\* Two update calls passed the same filter with different update documents.
C17_FilterUpdatedTwice ==
    /\ fn.op = "pool"
    /\ \E i, j \in 1..Len(fn.calls) :
          /\ i < j
          /\ fn.calls[i][1] = "update"
          /\ fn.calls[j][1] = "update"
          /\ fn.calls[i][2][1] = fn.calls[j][2][1]
          /\ fn.calls[i][2][2] # fn.calls[j][2][2]

(* ------------------------------------------------------------------ *)
(* C18 - After any sequence of Pool.insert and Pool.update calls no   *)
(* two buffered inserts are equal documents, and len() is the number  *)
(* of distinct insert documents plus the number of distinct update    *)
(* filters.                                                           *)
(* ------------------------------------------------------------------ *)
InsertedDocs == { fn.calls[i][2] : i \in { i \in 1..Len(fn.calls) : fn.calls[i][1] = "insert" } }

UpdatedFilters ==
    { fn.calls[i][2][1] : i \in { i \in 1..Len(fn.calls) : fn.calls[i][1] = "update" } }

C18_LenCountsDistinct ==
    fn.op = "pool"
        => /\ \A j, k \in 1..Len(fn.pool.inserts) :
                j # k => fn.pool.inserts[j] # fn.pool.inserts[k]
           /\ Pool_len(fn.pool) =
                Cardinality({ fn.pool.inserts[k] : k \in 1..Len(fn.pool.inserts) })
                + Cardinality({ fn.pool.updates[k][1] : k \in 1..Len(fn.pool.updates) })
           /\ Pool_len(fn.pool) = Cardinality(InsertedDocs) + Cardinality(UpdatedFilters)

\* The same document was inserted twice and an update was buffered.
C18_DocumentInsertedTwice ==
    /\ fn.op = "pool"
    /\ \E i, j \in 1..Len(fn.calls) :
          /\ i < j
          /\ fn.calls[i][1] = "insert"
          /\ fn.calls[j][1] = "insert"
          /\ fn.calls[i][2] = fn.calls[j][2]
    /\ Len(fn.pool.updates) > 0

(* ------------------------------------------------------------------ *)
(* C19 - A persistence failure other than duplicate-key during a      *)
(* block's transaction insert or a pool commit is fatal for the       *)
(* walker: it neither sets last_block for that block nor goes on to   *)
(* a later block.                                                     *)
(* ------------------------------------------------------------------ *)
C19_LossIsFatal ==
    \A e \in hist.lost :
        /\ procs[e[1]].current_block = e[2]
        /\ procs[e[1]].pc # "done"
        /\ Settings_get(settings, "last_block") # << ToString(e[2]) >>

(* ------------------------------------------------------------------ *)
(* C20 - When the fetch of a block or of a receipt fails while the    *)
(* walker is at block B, the walker stops there: the store holds no   *)
(* transaction, transfer, sale or wallet record of B and last_block   *)
(* is not B.                                                          *)
(* ------------------------------------------------------------------ *)
C20_FetchFailureStopsWalker ==
    \A p \in Walkers :
        (procs[p].pc = "panicked" /\ procs[p].phase = "stream")
            => LET B == procs[p].current_block
               IN  /\ \A c \in RecordCollections :
                         \A d \in BagToSet(docs[c]) : d.block # B
                   /\ \A w \in wallets : w.last_seen.block # B
                   /\ Settings_get(settings, "last_block") # << ToString(B) >>

\* A walker that had flushed a block failed at a later block that holds
\* transactions.
C20_FailedAtLaterBlock ==
    \E p \in Walkers :
        /\ procs[p].pc = "panicked"
        /\ procs[p].phase = "stream"
        /\ procs[p].current_block > procs[p].range[1]
        /\ Len(BlockTxs(procs[p].current_block)) > 0
        /\ BagCardinality(docs["transactions"]) > 0

(* ------------------------------------------------------------------ *)
(* C21 - create_indexes is idempotent: on a store where it has        *)
(* completed (every collection has its marker and its indexes), a     *)
(* later run of it enters no index creation, and no step changes the  *)
(* indexes or a bootstrap marker.                                     *)
(* ------------------------------------------------------------------ *)
BootstrapCompleted ==
    \A k \in 1..Len(Collections) :
        /\ Settings_get(settings, index_setup_key(Collections[k])) # << >>
        /\ IndexesOf(Collections[k]) \subseteq indexes

C21_BootstrapIdempotent ==
    [][BootstrapCompleted =>
          /\ indexes' = indexes
          /\ \A k \in 1..Len(Collections) :
                Settings_get(settings', index_setup_key(Collections[k]))
                    = Settings_get(settings, index_setup_key(Collections[k]))
          /\ \A p \in DOMAIN procs' : procs'[p].pc \notin {"ci_create", "ci_mark"}]_vars

\* The second run's opening create_indexes has returned, and so has a
\* walker's, on the store the first run set up.
C21_BootstrapRanAgain ==
    /\ BootstrapCompleted
    /\ run = 2
    /\ procs[0].pc = "join"
    /\ \E p \in Walkers : procs[p].pc = "fetch"

(* ------------------------------------------------------------------ *)
(* C22 - Every address stored in a Wallet or a Transaction record is  *)
(* the string 0x followed by exactly 40 lowercase hex digits, with    *)
(* one 0x prefix.                                                     *)
(* ------------------------------------------------------------------ *)
HexDigits == {"0", "1", "2", "3", "4", "5", "6", "7", "8", "9", "a", "b", "c", "d", "e", "f"}

RECURSIVE IsLowerHex(_)
IsLowerHex(s) ==
    \/ Len(s) = 0
    \/ /\ SubSeq(s, 1, 1) \in HexDigits
       /\ IsLowerHex(SubSeq(s, 2, Len(s)))

IsAddressString(s) ==
    /\ Len(s) = 42
    /\ SubSeq(s, 1, 2) = "0x"
    /\ IsLowerHex(SubSeq(s, 3, 42))

C22_AddressesWellFormed ==
    /\ \A w \in wallets : IsAddressString(w.address)
    /\ \A t \in BagToSet(docs["transactions"]) :
          IsAddressString(t.from) /\ IsAddressString(t.to)

(* ------------------------------------------------------------------ *)
(* C23 - Every numeric field stored as a string (value_or_token_id,   *)
(* token_id, value, price, seller_received) is a decimal numeral      *)
(* without leading zeros.                                             *)
(* ------------------------------------------------------------------ *)
DecimalDigits == {"0", "1", "2", "3", "4", "5", "6", "7", "8", "9"}

RECURSIVE IsDigits(_)
IsDigits(s) ==
    \/ Len(s) = 0
    \/ /\ SubSeq(s, 1, 1) \in DecimalDigits
       /\ IsDigits(SubSeq(s, 2, Len(s)))

IsDecimalString(s) ==
    /\ Len(s) > 0
    /\ IsDigits(s)
    /\ Len(s) > 1 => SubSeq(s, 1, 1) # "0"

C23_NumbersStoredInDecimal ==
    /\ \A t \in BagToSet(docs["erc_transfers"]) : IsDecimalString(t.value_or_token_id)
    /\ \A t \in BagToSet(docs["erc1155_transfers"]) :
          IsDecimalString(t.token_id) /\ IsDecimalString(t.value)
    /\ \A t \in BagToSet(docs["erc721_sales"]) :
          IsDecimalString(t.price) /\ IsDecimalString(t.seller_received)

(* ------------------------------------------------------------------ *)
(* C24 - log_id depends only on (transaction_id, log_index): every    *)
(* stored transfer's log_id is the value both get_transfer_id         *)
(* functions return for its pair, and a second run over the same      *)
(* range ends with the set of log_id values the first run left.       *)
(* ------------------------------------------------------------------ *)
LogIds(d) ==
    { t.log_id : t \in BagToSet(d["erc_transfers"]) \cup BagToSet(d["erc1155_transfers"]) }

C24_LogIdDeterministic ==
    /\ \A t \in BagToSet(docs["erc_transfers"]) \cup BagToSet(docs["erc1155_transfers"]) :
          /\ t.log_id = ERCTransfer_get_transfer_id(t.transaction_id, t.log_index)
          /\ t.log_id = ERC1155Transfer_get_transfer_id(t.transaction_id, t.log_index)
    /\ (run = 2 /\ procs[0].pc = "exited") => LogIds(docs) = LogIds(snap)

\* A second run has ended over a store that holds an ERC1155 transfer.
C24_SecondRunEnded ==
    /\ run = 2
    /\ procs[0].pc = "exited"
    /\ docs["erc1155_transfers"] # EmptyBag
    /\ LogIds(snap) # {}

(* ------------------------------------------------------------------ *)
(* C25 - Without replay a stored Transaction, ERCTransfer,            *)
(* ERC1155Transfer or Sale record is never changed: after every step, *)
(* a write carrying its unique key included, the store holds the same *)
(* record under that key and as many copies of it as before.          *)
(* ------------------------------------------------------------------ *)
C25_StoredRecordsImmutable ==
    [][~args.replay =>
          \A c \in RecordCollections :
              \A d \in BagToSet(docs[c]) :
                  /\ CopiesIn(d, docs'[c]) = CopiesIn(d, docs[c])
                  /\ { e \in BagToSet(docs'[c]) : KeyOf(c, e) = KeyOf(c, d) }
                        = { e \in BagToSet(docs[c]) : KeyOf(c, e) = KeyOf(c, d) }]_vars

\* A walker of the second run has written over a store that already held
\* the records of its blocks, transfers and a sale among them.
C25_RewrittenInSecondRun ==
    /\ run = 2
    /\ hist.walkerWrote
    /\ snap["transactions"] # EmptyBag
    /\ snap["erc_transfers"] # EmptyBag
    /\ snap["erc721_sales"] # EmptyBag
    /\ \E p \in Walkers : procs[p].pc = "done"

(* ------------------------------------------------------------------ *)
(* C26 - Within one walker every pool that held records of a block,   *)
(* the per-walker wallet pool included, is empty when the next block  *)
(* is fetched, under every combination of flags.                      *)
(* ------------------------------------------------------------------ *)
C26_PoolsEmptyAtFetch ==
    \A p \in Walkers :
        procs[p].pc = "fetch" =>
            /\ Len(procs[p].tx_pool) = 0
            /\ Pool_len(procs[p].erc_pool) = 0
            /\ Pool_len(procs[p].erc1155_pool) = 0
            /\ Pool_len(procs[p].erc_sale_pool) = 0
            /\ Pool_len(procs[p].wallet_pool) = 0

(* ------------------------------------------------------------------ *)
(* C27 - The store writes of a block occur in the order transactions, *)
(* erc_transfers, erc1155_transfers, sales, wallets, and last_block   *)
(* is set to B only after all of them: when a walker is about to set  *)
(* last_block = B, every record of B that the flags select is stored  *)
(* and its pools are flushed.                                         *)
(* ------------------------------------------------------------------ *)
StageIndex(s) == CHOOSE j \in 1..Len(FlushStages) : FlushStages[j] = s

StageNames == { FlushStages[j] : j \in 1..Len(FlushStages) }

PoolStored(c, pool) ==
    \A k \in 1..Len(pool.inserts) : pool.inserts[k] \in BagToSet(docs[c])

BlockCommitted(b) ==
    LET st == DecodeBlock(EmptyPool, b, args)
    IN  /\ args.feature_transactions =>
              \A k \in 1..Len(st.tx_pool) : st.tx_pool[k] \in BagToSet(docs["transactions"])
        /\ args.feature_erc_transfers =>
              /\ PoolStored("erc_transfers", st.erc_pool)
              /\ PoolStored("erc1155_transfers", st.erc1155_pool)
        /\ args.feature_erc_721_sales => PoolStored("erc721_sales", st.erc_sale_pool)
        /\ args.feature_wallet_updates =>
              \A k \in 1..Len(st.wallet_pool.updates) :
                  [address |-> st.wallet_pool.updates[k][1].address,
                   last_seen |-> st.wallet_pool.updates[k][2].last_seen] \in wallets

C27_WritesInOrderBeforeLastBlock ==
    /\ [](\A p \in Walkers :
            procs[p].pc = "set_last_block" =>
                /\ BlockCommitted(procs[p].current_block)
                /\ Pool_len(procs[p].erc_pool) = 0
                /\ Pool_len(procs[p].erc1155_pool) = 0
                /\ Pool_len(procs[p].erc_sale_pool) = 0
                /\ Pool_len(procs[p].wallet_pool) = 0)
    /\ [][/\ \A p \in Walkers \cap DOMAIN procs' :
                (/\ procs[p].pc \in StageNames
                 /\ procs'[p].pc \in StageNames
                 /\ procs'[p].current_block = procs[p].current_block)
                    => StageIndex(procs'[p].pc) >= StageIndex(procs[p].pc)
          /\ Settings_get(settings', "last_block") # Settings_get(settings, "last_block")
                => \E p \in Walkers :
                      /\ procs[p].pc = "set_last_block"
                      /\ Settings_get(settings', "last_block")
                            = <<ToString(procs[p].current_block)>>]_vars

\* A walker is about to set last_block for a block of which it has written
\* transactions, a transfer, a sale and wallets.
C27_AllStagesWritten ==
    \E p \in Walkers :
        /\ procs[p].pc = "set_last_block"
        /\ procs[p].current_block = MARKETPLACE_V2_DEPLOY_BLOCK - 1
        /\ docs["transactions"] # EmptyBag
        /\ docs["erc_transfers"] # EmptyBag
        /\ docs["erc721_sales"] # EmptyBag
        /\ wallets # {}

(* ------------------------------------------------------------------ *)
(* C28 - The stored largest_block_by_tx_num.tx_num never decreases    *)
(* during a run, several walkers running concurrently included.       *)
(* ------------------------------------------------------------------ *)
StoredLargestTxNum(st) ==
    LET got == Settings_get(st, "largest_block_by_tx_num")
    IN  IF got = << >> THEN 0 ELSE got[1].tx_num

C28_LargestNeverDecreases ==
    [][StoredLargestTxNum(settings') >= StoredLargestTxNum(settings)]_vars

(* ------------------------------------------------------------------ *)
(* C29 - With wallet updates on, after a walker has flushed block B   *)
(* every address that is sender or receiver of a transaction of B has *)
(* a Wallet record whose last_seen is block B and the hash of the     *)
(* last transaction of B, in block order, in which it appears.        *)
(* ------------------------------------------------------------------ *)
TxsWith(x, b) ==
    { k \in 1..Len(BlockTxs(b)) : BlockTxs(b)[k].from = x \/ BlockTxs(b)[k].to = x }

LastTxWith(x, b) == BlockTxs(b)[CHOOSE k \in TxsWith(x, b) : \A j \in TxsWith(x, b) : j <= k]

AddressesOf(b) ==
    { BlockTxs(b)[k].from : k \in 1..Len(BlockTxs(b)) }
    \cup ({ BlockTxs(b)[k].to : k \in 1..Len(BlockTxs(b)) } \ {"null"})

C29_WalletLastSeenAfterFlush ==
    \A p \in Walkers :
        (procs[p].pc = "set_last_block" /\ args.feature_wallet_updates) =>
            \A x \in AddressesOf(procs[p].current_block) :
                [address |-> "0x" \o x,
                 last_seen |-> [block |-> procs[p].current_block,
                                transaction |-> "0x" \o LastTxWith(x, procs[p].current_block).hash]]
                    \in wallets

\* A walker has flushed a block in which an address sends one transaction
\* and receives a later one.
C29_AddressSeenTwice ==
    \E p \in Walkers :
        /\ procs[p].pc = "set_last_block"
        /\ args.feature_wallet_updates
        /\ \E x \in AddressesOf(procs[p].current_block) :
              Cardinality(TxsWith(x, procs[p].current_block)) > 1

(* ------------------------------------------------------------------ *)
(* C30 - For a block above 16027461, order_matched returns a Sale if  *)
(* and only if the receipt has a log with Topic0 = OrderMatched and a *)
(* log whose address is a registry ERC-721 contract, the Sale's token *)
(* being the address of the first such log; otherwise it returns      *)
(* nothing.                                                           *)
(* ------------------------------------------------------------------ *)
OrderMatchedLogsOf(logs) ==
    { k \in 1..Len(logs) :
        /\ Len(logs[k].topics) > 0
        /\ logs[k].topics[1].h = MARKETPLACE_V2_ORDER_MATCHED_TOPIC }

Erc721LogsOf(logs) == { k \in 1..Len(logs) : IsErc721Log(logs[k]) }

C30_SaleIffMatchedAndToken ==
    (fn.op = "sale" /\ fn.done /\ fn.height > MARKETPLACE_V2_DEPLOY_BLOCK)
        => LET logs == fn.input.logs
               nft == Erc721LogsOf(logs)
           IN  IF OrderMatchedLogsOf(logs) # {} /\ nft # {}
               THEN /\ fn.ret.sale.kind = "some"
                    /\ fn.ret.sale.v.token
                          = to_string(logs[CHOOSE k \in nft : \A j \in nft : k <= j].address)
               ELSE fn.ret.sale.kind = "none"

(* ------------------------------------------------------------------ *)
(* C31 - For a block at or below 16027461, legacy_erc_sale returns a  *)
(* Sale if and only if the receipt has an AuctionSuccessful log and a *)
(* log with Topic0 = ERC_TRANSFER from a registry ERC-721 contract    *)
(* other than WETH; the Sale has price = seller_received and the      *)
(* token of the first such transfer log; otherwise it returns         *)
(* nothing.                                                           *)
(* ------------------------------------------------------------------ *)
AuctionLogsOf(logs) ==
    { k \in 1..Len(logs) :
        /\ Len(logs[k].topics) > 0
        /\ logs[k].topics[1].h = MARKETPLACE_AXIE_SALE_TOPIC }

NftTransferLogsOf(logs) ==
    { k \in 1..Len(logs) :
        /\ Len(logs[k].topics) > 0
        /\ logs[k].topics[1].h = ERC_TRANSFER_TOPIC
        /\ to_string(logs[k].address) \in erc721_contracts
        /\ to_string(logs[k].address) # WETH_ADDRESS }

C31_LegacySaleIffAuctionAndTransfer ==
    (fn.op = "sale" /\ fn.done /\ fn.height <= MARKETPLACE_V2_DEPLOY_BLOCK)
        => LET logs == fn.input.logs
               tr == NftTransferLogsOf(logs)
           IN  IF AuctionLogsOf(logs) # {} /\ tr # {}
               THEN /\ fn.ret.sale.kind = "some"
                    /\ fn.ret.sale.v.price = fn.ret.sale.v.seller_received
                    /\ fn.ret.sale.v.token
                          = to_string(logs[CHOOSE k \in tr : \A j \in tr : k <= j].address)
               ELSE fn.ret.sale.kind = "none"

(* ------------------------------------------------------------------ *)
(* C32 - Every ERCTransfer record has erc in {ERC20, ERC721}: a log   *)
(* from a contract registered as ERC1155 never yields an ERCTransfer  *)
(* record, whatever topics the log carries.                           *)
(* ------------------------------------------------------------------ *)
C32_ErcTransferCategory ==
    (fn.op = "log" /\ fn.done)
        => \A k \in 1..Len(fn.ret.erc_pool.inserts) :
              /\ fn.ret.erc_pool.inserts[k].erc \in {"ERC20", "ERC721"}
              /\ contract_list[to_string(fn.input.address)] # "ERC1155"

(* ------------------------------------------------------------------ *)
(* C33 - When a feature flag is off, the walker never writes its      *)
(* collection: no request for it is sent, and transactions            *)
(* (feature_transactions), erc_transfers and erc1155_transfers        *)
(* (feature_erc_transfers), sales (feature_erc_721_sales) and wallets *)
(* (feature_wallet_updates) stay unchanged.                           *)
(* ------------------------------------------------------------------ *)
NoWalkerAt(stages) == \A p \in Walkers : procs[p].pc \notin stages

C33_FlagOffCollectionUntouched ==
    /\ [](/\ ~args.feature_transactions => NoWalkerAt({"insert_txs"})
          /\ ~args.feature_erc_transfers => NoWalkerAt({"commit_erc", "commit_erc1155"})
          /\ ~args.feature_erc_721_sales => NoWalkerAt({"commit_sales"})
          /\ ~args.feature_wallet_updates => NoWalkerAt({"commit_wallets"}))
    /\ [][/\ ~args.feature_transactions => docs'["transactions"] = docs["transactions"]
          /\ ~args.feature_erc_transfers =>
                /\ docs'["erc_transfers"] = docs["erc_transfers"]
                /\ docs'["erc1155_transfers"] = docs["erc1155_transfers"]
          /\ ~args.feature_erc_721_sales => docs'["erc721_sales"] = docs["erc721_sales"]
          /\ ~args.feature_wallet_updates => wallets' = wallets]_vars

\* A walker has finished a range with the transactions feature off, having
\* stored transfers and a sale.
C33_WalkedWithTransactionsOff ==
    /\ ~args.feature_transactions
    /\ ~args.debug
    /\ docs["erc_transfers"] # EmptyBag
    /\ docs["erc721_sales"] # EmptyBag
    /\ \E p \in Walkers : procs[p].pc = "done"

(* ------------------------------------------------------------------ *)
(* C34 - Processing a block with zero transactions changes only the   *)
(* last_block setting: no record collection, no wallet, no pool and   *)
(* not largest_block_by_tx_num changes, and the walker enters neither *)
(* the transaction loop (no receipt is fetched) nor a commit.         *)
(* ------------------------------------------------------------------ *)
AtEmptyBlock(p) ==
    /\ procs[p].pc \in {"fetch", "set_last_block"}
    /\ Len(BlockTxs(procs[p].current_block)) = 0

PoolsOf(r) == <<r.tx_pool, r.erc_pool, r.erc1155_pool, r.erc_sale_pool, r.wallet_pool>>

C34_EmptyBlockOnlyCheckpoints ==
    [][\A p \in Walkers \cap DOMAIN procs' :
          AtEmptyBlock(p) =>
              /\ docs' = docs
              /\ wallets' = wallets
              /\ indexes' = indexes
              /\ \A key \in SettingKeys \ {"last_block"} :
                    Settings_get(settings', key) = Settings_get(settings, key)
              /\ PoolsOf(procs'[p]) = PoolsOf(procs[p])
              /\ procs'[p].pc \in {"fetch", "set_last_block", "done"}]_vars

\* A walker is about to checkpoint a block without transactions after a
\* block whose transactions it stored.
C34_AtCheckpointOfEmptyBlock ==
    \E p \in Walkers :
        /\ procs[p].pc = "set_last_block"
        /\ Len(BlockTxs(procs[p].current_block)) = 0
        /\ docs["transactions"] # EmptyBag

WalkerIds == 1..2

Started(p) == p \in DOMAIN procs /\ procs[p].pc # "idle"

(* ------------------------------------------------------------------ *)
(* C35 - Given that every RPC and store call succeeds, a walker       *)
(* started on [range_start, range_stop] eventually terminates; it     *)
(* fetches the blocks from range_start upwards one by one, each once, *)
(* none outside the range, and ends past range_stop, that is after    *)
(* range_stop - range_start + 1 blocks; with range_start > range_stop *)
(* it fetches no block at all.                                        *)
(* ------------------------------------------------------------------ *)
C35_WalkerTerminates ==
    /\ \A p \in WalkerIds : [](Started(p) => <>(Started(p) /\ procs[p].pc = "done"))
    /\ [](\A p \in Walkers :
            /\ procs[p].pc = "fetch" =>
                  /\ procs[p].range[1] <= procs[p].current_block
                  /\ procs[p].current_block <= procs[p].range[2]
            /\ procs[p].pc = "done" =>
                  IF procs[p].range[1] <= procs[p].range[2]
                  THEN procs[p].current_block = procs[p].range[2] + 1
                  ELSE procs[p].current_block = 0)
    /\ [][\A p \in Walkers \cap DOMAIN procs' :
            (procs'[p].pc = "fetch" /\ procs'[p] # procs[p]) =>
                \/ /\ procs[p].pc = "read_largest"
                   /\ procs'[p].current_block = procs[p].range[1]
                \/ /\ procs[p].pc \notin {"read_largest", "idle"}
                   /\ procs'[p].current_block = procs[p].current_block + 1]_vars

\* A walker has ended after the three blocks of its range.
C35_WalkedThreeBlocks ==
    \E p \in Walkers :
        /\ procs[p].pc = "done"
        /\ procs[p].range[2] - procs[p].range[1] + 1 = 3
        /\ procs[p].current_block = procs[p].range[1] + 3

\* The walker tasks main has spawned.
Spawned == {p \in Walkers : procs[p].pc # "idle"}

\* C36: the supervisor spawns exactly one walker per chunk, never spawns a
\* chunk a second time (a walker that ended, panicked or not, stays ended),
\* and reports completion only after every spawned walker has finished.
C36_OneWalkerPerChunkNoRetry ==
    /\ [](/\ Spawned = 1..main.i
          /\ \A p \in Spawned : procs[p].range = main.chunks[p]
          /\ main.outcome = "completed" =>
                /\ main.i = Len(main.chunks)
                /\ \A p \in 1..Len(main.chunks) : Finished(procs[p]))
    /\ [][\A p \in Spawned :
            /\ p \in DOMAIN procs'
            /\ procs'[p].pc # "idle"
            /\ procs'[p].range = procs[p].range
            /\ main'.chunks = main.chunks
            /\ Finished(procs[p]) => procs'[p] = procs[p]]_vars

C36_CompletedWithPanickedWalker ==
    /\ main.outcome = "completed"
    /\ Len(main.chunks) >= 2
    /\ \E p \in Walkers : procs[p].pc = "panicked"
    /\ \E p \in Walkers : procs[p].pc = "done"

\* The chunks of r that hold block b.
ChunksHolding(r, b) == {k \in 1..Len(r) : r[k][1] <= b /\ b <= r[k][2]}

\* C37: for start <= stop and C >= 1 the chunks chunk_u64 returns are
\* non-empty, ascending and pairwise disjoint; the first starts at start, the
\* last ends at stop and each next chunk starts one past the end before it,
\* so every block of [start, stop] lies in exactly one chunk and no block
\* outside it lies in any.
C37_ChunksPartitionRange ==
    (fn.done /\ fn.base <= fn.max /\ fn.chunk_size >= 1) =>
        LET r == fn.ret
        IN  /\ Len(r) >= 1
            /\ r[1][1] = fn.base
            /\ r[Len(r)][2] = fn.max
            /\ \A k \in 1..Len(r) : r[k][1] <= r[k][2]
            /\ \A k \in 1..(Len(r) - 1) : r[k + 1][1] = r[k][2] + 1
            /\ \A b \in (fn.base - MaxChunkArg)..(fn.max + MaxChunkArg) :
                   Cardinality(ChunksHolding(r, b)) =
                       IF fn.base <= b /\ b <= fn.max THEN 1 ELSE 0

C37_SeveralChunksLastLonger ==
    /\ fn.done
    /\ Len(fn.ret) >= 3
    /\ fn.ret[Len(fn.ret)][2] - fn.ret[Len(fn.ret)][1] + 1 = fn.chunk_size + 1


\* C38: sale decoding never fails on a receipt that holds a log without
\* topics: order_matched and legacy_erc_sale return nothing or a Sale.
C38_SaleDecodingSurvivesTopiclessLog ==
    (fn.op = "sale" /\ fn.done /\ NoTopics(fn.input.logs))
        => fn.ret.sale.kind \in {"none", "some"}


\* C39: with the resolved start block above the resolved stop block the
\* supervisor computes its chunk size without u64 underflow (the plan is
\* made, main does not panic) and no planned chunk holds a block.
C39_StartAboveStopPlansNothing ==
    (fn.op = "plan" /\ fn.done /\ sync_start(args) > sync_stop(args, head))
        => /\ fn.ret.kind = "some"
           /\ \A k \in 1..Len(fn.ret.v) : fn.ret.v[k][1] > fn.ret.v[k][2]
====
